---- MODULE Spec2Model ----
(***************************************************************************)
(* czviewer: the background router of the extension (latencyRouter.ts):    *)
(* the reward participant registry, the round-robin scheduler with its     *)
(* in-flight guard, response timeout and cooldown, the persisted cooldown  *)
(* store, and the latency relay of the message listener.                   *)
(*                                                                         *)
(* Time is Date.now() in milliseconds.  One step of the model is one turn  *)
(* of the single-threaded event loop (a message handler, a timer callback, *)
(* a response callback, a storage completion) or the passing of time.      *)
(***************************************************************************)
EXTENDS Integers, Sequences, FiniteSets, TLC

\* ---------------------------------------------------------------------------
\* Program constants (latencyRouter.ts:67-70)
\* ---------------------------------------------------------------------------

REWARD_HEARTBEAT_STALE_MS == 45000

REWARD_SCHEDULE_INTERVAL_MS == 15000

REWARD_COOLDOWN_MS == 55 * 60 * 1000

REWARD_RUN_RESPONSE_TIMEOUT_MS == 12000

\* ---------------------------------------------------------------------------
\* Bounds of the model
\* ---------------------------------------------------------------------------

\* How many times the clock may move.
MaxAdvances == 1

\* How many dispatched ticks may have a timer or a response callback pending.
MaxOutstanding == 2

\* How many storage writes may be queued.
MaxWrites == 1

\* How many FETCH_CHANNEL_NAME callbacks of the bridge may be pending.
MaxNameRequests == 2

\* How many fetches of the name resolver may be outstanding.
MaxFetches == 2

\* Date.now() when the service worker starts.
StartTime == 100000

\* null / undefined of the source, for numbers.
NULL == -1

\* The tabs that exist.
Tabs == {1, 2}

\* Tab 1 embeds a second player frame; the other tabs have the top frame only.
FramesOf(tabId) == IF tabId = 1 THEN {0, 1} ELSE {0}

\* The amounts by which the clock moves between two turns.
TimeSteps ==
  { REWARD_RUN_RESPONSE_TIMEOUT_MS, REWARD_HEARTBEAT_STALE_MS + 1, REWARD_COOLDOWN_MS }

\* channelId as sent by a content script: absent (<<>> stands for
\* undefined/null), blank, or a padded identifier.
\* A string is the sequence of its characters.
RawChannelIds ==
  { <<>>, <<" ">>, <<" ", "a", " ">> }

\* What the store holds at start: nothing (NULL), a time in the past, the
\* start time itself, or a time in the future.
StoredAtStart == { NULL, StartTime - 1, StartTime + REWARD_RUN_RESPONSE_TIMEOUT_MS }

VARIABLES
  now,                       \* Date.now()
  rewardParticipants,        \* the Map, as the sequence of its values in insertion order
  rewardRoundRobinCursor,
  rewardCooldownUntil,
  rewardTickInFlight,
  rewardCooldownReady,
  rewardSchedulerIntervalId, \* NULL, or the handle of the interval timer
  ticks,                     \* the closures of the dispatched ticks that have something pending
  stored,                    \* the value under 'cooldownUntil' in the IndexedDB store
  pendingWrites,             \* store.put requests issued and not yet completed
  advances,                  \* how often the clock has moved
  lastClaimAt,               \* history: when the last success response was processed
  sent,                      \* the messages sent during the last turn
  lastIn,                    \* the message the listener handled in the last turn
  reply,                     \* what the last turn passed to sendResponse
  picks,                     \* history: the targets selected since the registry last changed
  waited,                    \* history: per participant, the selections that passed it over
  subscribedLatency,         \* multiviewBridge.ts: the channelIds the page subscribed to
  nameRequests,              \* multiviewBridge.ts: FETCH_CHANNEL_NAME callbacks not yet run
  posted,                    \* the messages the bridge posted to the page in the last turn
  runtimeSent,               \* the messages the bridge sent to the background in the last turn
  bridgeIn,                  \* the event the bridge handled in the last turn
  closedTabs,                \* history: the tabs whose tabs.onRemoved has been handled
  channelCache,              \* fetchChannelName.ts: the Map, id -> name (or "null")
  nameFetches,               \* fetchChannelName.ts: the fetches not yet settled, by id
  nameIn,                    \* the event the name resolver handled in the last turn
  nameOut,                   \* what the last turn of the name resolver passed to sendResponse
  nameNet                    \* the ids the last turn of the name resolver called fetch for

vars ==
  << now, rewardParticipants, rewardRoundRobinCursor, rewardCooldownUntil,
     rewardTickInFlight, rewardCooldownReady, rewardSchedulerIntervalId, ticks,
     stored, pendingWrites, advances, lastClaimAt, sent, lastIn, reply,
     picks, waited,
     subscribedLatency, nameRequests, posted, runtimeSent, bridgeIn,
     closedTabs, channelCache, nameFetches, nameIn, nameOut, nameNet >>

\* The state of the name resolver, with its history.
nameVars == << channelCache, nameFetches, nameIn, nameOut, nameNet >>

\* The state of the bridge content script.
bridgeVars == << subscribedLatency, nameRequests, posted, runtimeSent, bridgeIn >>

\* The state of the background script, with its history.
routerVars ==
  << now, rewardParticipants, rewardRoundRobinCursor, rewardCooldownUntil,
     rewardTickInFlight, rewardCooldownReady, rewardSchedulerIntervalId, ticks,
     stored, pendingWrites, advances, lastClaimAt, sent, lastIn, reply,
     picks, waited, closedTabs >>

\* ---------------------------------------------------------------------------
\* Helpers
\* ---------------------------------------------------------------------------

RECURSIVE TrimStart(_)
TrimStart(s) ==
  IF s # <<>> /\ Head(s) = " " THEN TrimStart(Tail(s)) ELSE s

RECURSIVE TrimEnd(_)
TrimEnd(s) ==
  IF s # <<>> /\ s[Len(s)] = " " THEN TrimEnd(SubSeq(s, 1, Len(s) - 1)) ELSE s

\* String(m.channelId ?? '').trim()
TrimChannelId(raw) == TrimEnd(TrimStart(raw))

Range(s) == { s[i] : i \in 1 .. Len(s) }

SameKey(p, tabId, frameId) == p.tabId = tabId /\ p.frameId = frameId

HasKey(parts, tabId, frameId) ==
  \E i \in 1 .. Len(parts) : SameKey(parts[i], tabId, frameId)

MapSet_MovesToEnd(parts, p) ==
  LET Keep(q) == ~SameKey(q, p.tabId, p.frameId)
  IN Append(SelectSeq(parts, Keep), p)

\* Map.prototype.set: an existing key keeps its place, a new key goes last.
MapSet(parts, p) ==
  IF HasKey(parts, p.tabId, p.frameId)
  THEN [ i \in 1 .. Len(parts) |->
           IF SameKey(parts[i], p.tabId, p.frameId) THEN p ELSE parts[i] ]
  ELSE Append(parts, p)

\* Map.prototype.delete
MapDelete(parts, tabId, frameId) ==
  LET Keep(p) == ~SameKey(p, tabId, frameId) IN SelectSeq(parts, Keep)

\* The program state the scheduler and the registry work on, as one record,
\* so that a handler's calls compose.
State ==
  [ parts |-> rewardParticipants,
    cursor |-> rewardRoundRobinCursor,
    until |-> rewardCooldownUntil,
    inFlight |-> rewardTickInFlight,
    ready |-> rewardCooldownReady,
    interval |-> rewardSchedulerIntervalId,
    ticks |-> ticks,
    writes |-> pendingWrites,
    claims |-> lastClaimAt,
    sent |-> <<>> ]

Install(S) ==
  /\ rewardParticipants' = S.parts
  /\ rewardRoundRobinCursor' = S.cursor
  /\ rewardCooldownUntil' = S.until
  /\ rewardTickInFlight' = S.inFlight
  /\ rewardCooldownReady' = S.ready
  /\ rewardSchedulerIntervalId' = S.interval
  /\ ticks' = S.ticks
  /\ pendingWrites' = S.writes
  /\ lastClaimAt' = S.claims
  /\ sent' = S.sent

\* ---------------------------------------------------------------------------
\* Participant registry (latencyRouter.ts:161-210)
\* ---------------------------------------------------------------------------

\* self.setInterval: the handle of the new timer. The phase of the timer is
\* not tracked: a tick can run at any instant in any case (an UNREGISTER from
\* a frame that is not registered runs one and changes nothing else).
setInterval(ms) == 1

ensureRewardSchedulerRunning_Never(S, t) == S

ensureRewardSchedulerRunning(S, t) ==
  IF S.interval # NULL THEN S
  ELSE [S EXCEPT !.interval = setInterval(REWARD_SCHEDULE_INTERVAL_MS)]

stopRewardSchedulerIfIdle(S) ==
  IF Len(S.parts) > 0 THEN S
  ELSE IF S.interval = NULL THEN S
  ELSE [S EXCEPT !.interval = NULL]

upsertRewardParticipant(S, tabId, frameId, channelId, t) ==
  ensureRewardSchedulerRunning(
    [S EXCEPT !.parts =
       MapSet(S.parts, [tabId |-> tabId, frameId |-> frameId,
                        channelId |-> channelId, updatedAt |-> t])],
    t)

removeRewardParticipant_NoStop(S, tabId, frameId) ==
  [S EXCEPT !.parts = MapDelete(S.parts, tabId, frameId)]

removeRewardParticipant(S, tabId, frameId) ==
  stopRewardSchedulerIfIdle([S EXCEPT !.parts = MapDelete(S.parts, tabId, frameId)])

IsStale(p, t) == t - p.updatedAt > REWARD_HEARTBEAT_STALE_MS

pruneRewardParticipants_EvictsAtWindow(S, t) ==
  LET Fresh(p) == t - p.updatedAt < REWARD_HEARTBEAT_STALE_MS
  IN stopRewardSchedulerIfIdle([S EXCEPT !.parts = SelectSeq(S.parts, Fresh)])

pruneRewardParticipants(S, t) ==
  LET Fresh(p) == ~IsStale(p, t)
  IN stopRewardSchedulerIfIdle([S EXCEPT !.parts = SelectSeq(S.parts, Fresh)])

NoTarget == [tabId |-> NULL, frameId |-> NULL, channelId |-> <<>>, updatedAt |-> NULL]

getRewardNextTarget_NoAdvance(S, t) ==
  LET P == pruneRewardParticipants(S, t)
      list == P.parts
  IN IF Len(list) = 0 THEN [S |-> P, found |-> FALSE, target |-> NoTarget]
     ELSE LET cursor == IF P.cursor >= Len(list) THEN 0 ELSE P.cursor
          IN [ S |-> [P EXCEPT !.cursor = cursor],
               found |-> TRUE,
               target |-> list[cursor + 1] ]

getRewardNextTarget_RestartsAtFirst(S, t) ==
  LET P == pruneRewardParticipants(S, t)
      list == P.parts
  IN IF Len(list) = 0 THEN [S |-> P, found |-> FALSE, target |-> NoTarget]
     ELSE LET cursor == IF P.cursor >= Len(list) THEN 0 ELSE P.cursor
          IN [ S |-> [P EXCEPT !.cursor = 0],
               found |-> TRUE,
               target |-> list[cursor + 1] ]

getRewardNextTarget_NoCursorReset(S, t) ==
  LET P == pruneRewardParticipants(S, t)
      list == P.parts
  IN IF Len(list) = 0 THEN [S |-> P, found |-> FALSE, target |-> NoTarget]
     ELSE LET cursor == P.cursor
              found == cursor + 1 \in DOMAIN list
          IN [ S |-> [P EXCEPT !.cursor = (cursor + 1) % Len(list)],
               found |-> found,
               target |-> IF found THEN list[cursor + 1] ELSE NoTarget ]

\* Returns the state after the call and the target (found = FALSE for null).
getRewardNextTarget(S, t) ==
  LET P == pruneRewardParticipants(S, t)
      list == P.parts
  IN IF Len(list) = 0 THEN [S |-> P, found |-> FALSE, target |-> NoTarget]
     ELSE LET cursor == IF P.cursor >= Len(list) THEN 0 ELSE P.cursor
              found == cursor + 1 \in DOMAIN list
          IN [ S |-> [P EXCEPT !.cursor = (cursor + 1) % Len(list)],
               found |-> found,
               target |-> IF found THEN list[cursor + 1] ELSE NoTarget ]

\* ---------------------------------------------------------------------------
\* Scheduler (latencyRouter.ts:212-268)
\* ---------------------------------------------------------------------------

settleTick_NoSettledGuard(tk, inFlight) ==
  [ tick |-> [tk EXCEPT !.settled = TRUE, !.releases = @ + 1], inFlight |-> FALSE ]

settleTick_ClearsFlagAgain(tk, inFlight) ==
  IF tk.settled THEN [tick |-> tk, inFlight |-> FALSE]
  ELSE [ tick |-> [tk EXCEPT !.settled = TRUE, !.releases = @ + 1],
         inFlight |-> FALSE ]

\* settleTick of the closure tk. Returns the closure and the in-flight flag.
settleTick(tk, inFlight) ==
  IF tk.settled THEN [tick |-> tk, inFlight |-> inFlight]
  ELSE [ tick |-> [tk EXCEPT !.settled = TRUE, !.releases = @ + 1],
         inFlight |-> FALSE ]

\* A closure stays in ticks while its timer or its response callback is pending.
Pending(tk) == tk.armed \/ tk.resp = "pending"

PutTick(tickSet, old, new) ==
  (tickSet \ {old}) \cup (IF Pending(new) THEN {new} ELSE {})

\* chrome.tabs.sendMessage either starts (its callback will run later) or
\* throws. The closure handed to safeSend sets sendStarted before the call.
SendOutcomes == {"started", "thrown"}

sendStartedAfterSafeSend(outcome) == TRUE

RewardRunMsg(target) ==
  [ type |-> "CHZZK_REWARD_RUN", tabId |-> target.tabId,
    frameId |-> target.frameId, channelId |-> target.channelId ]

\* Lines 219-267: select the target, set the flag, arm the timeout, send.
selectAndDispatch(S, t, outcome) ==
  LET r == getRewardNextTarget(S, t) IN
  IF ~r.found THEN r.S
  ELSE
    LET tk0 == [ tabId |-> r.target.tabId, frameId |-> r.target.frameId,
                 channelId |-> r.target.channelId, dispatchedAt |-> t,
                 settled |-> FALSE, armed |-> TRUE,
                 resp |-> IF outcome = "started" THEN "pending" ELSE "thrown",
                 releases |-> 0 ]
        sendStarted == sendStartedAfterSafeSend(outcome)
        st == settleTick(tk0, TRUE)
        tk == IF ~sendStarted THEN [st.tick EXCEPT !.armed = FALSE] ELSE tk0
    IN [ r.S EXCEPT
           !.inFlight = IF ~sendStarted THEN st.inFlight ELSE TRUE,
           !.ticks = PutTick(@, tk, tk),
           !.sent = IF outcome = "started"
                    THEN Append(@, RewardRunMsg(r.target)) ELSE @ ]

runRewardSchedulerTick_NoCooldownCheck(S, t, outcome) ==
  IF S.inFlight THEN S
  ELSE IF ~S.ready THEN S
  ELSE selectAndDispatch(S, t, outcome)

runRewardSchedulerTick_NoInFlightCheck(S, t, outcome) ==
  IF ~S.ready THEN S
  ELSE IF S.until > t THEN S
  ELSE selectAndDispatch(S, t, outcome)

runRewardSchedulerTick_NoReadyCheck(S, t, outcome) ==
  IF S.inFlight THEN S
  ELSE IF S.until > t THEN S
  ELSE selectAndDispatch(S, t, outcome)

runRewardSchedulerTick_PrunesFirst(S, t, outcome) ==
  LET P == pruneRewardParticipants(S, t)
  IN IF P.inFlight THEN P
     ELSE IF ~P.ready THEN P
     ELSE IF P.until > t THEN P
     ELSE selectAndDispatch(P, t, outcome)

runRewardSchedulerTick(S, t, outcome) ==
  IF S.inFlight THEN S
  ELSE IF ~S.ready THEN S
  ELSE IF S.until > t THEN S
  ELSE selectAndDispatch(S, t, outcome)

\* The response callback of the dispatch tk (latencyRouter.ts:243-260).
\* r is what chrome hands to the callback: lastError (or "none") and the
\* response object of the content script.
GoneErrors == {"Receiving end does not exist", "No tab with id"}

Responses ==
  { [lastError |-> e, ok |-> FALSE, claimed |-> FALSE] :
      e \in GoneErrors \cup {"The message port closed"} }
  \cup { [lastError |-> "none", ok |-> o, claimed |-> c] : o, c \in BOOLEAN }

writeRewardCooldownUntil(S, until) == [S EXCEPT !.writes = Append(@, until)]

LogClaim(S, tk, t) == [S EXCEPT !.claims = t]

onRewardRunResponse_EvictsOnAnyError(S, tk, r, t) ==
  LET st == settleTick([tk EXCEPT !.armed = FALSE, !.resp = "done"], S.inFlight)
      S1 == [S EXCEPT !.inFlight = st.inFlight, !.ticks = PutTick(@, tk, st.tick)]
  IN IF r.lastError # "none"
     THEN removeRewardParticipant(S1, tk.tabId, tk.frameId)
     ELSE IF r.ok /\ r.claimed
          THEN writeRewardCooldownUntil(
                 LogClaim([S1 EXCEPT !.until = t + REWARD_COOLDOWN_MS], tk, t),
                 t + REWARD_COOLDOWN_MS)
          ELSE S1

onRewardRunResponse_CooldownWithoutClaim(S, tk, r, t) ==
  LET st == settleTick([tk EXCEPT !.armed = FALSE, !.resp = "done"], S.inFlight)
      S1 == [S EXCEPT !.inFlight = st.inFlight, !.ticks = PutTick(@, tk, st.tick)]
  IN IF r.lastError # "none"
     THEN IF r.lastError \in GoneErrors
          THEN removeRewardParticipant(S1, tk.tabId, tk.frameId)
          ELSE S1
     ELSE IF r.ok
          THEN writeRewardCooldownUntil(
                 LogClaim([S1 EXCEPT !.until = t + REWARD_COOLDOWN_MS], tk, t),
                 t + REWARD_COOLDOWN_MS)
          ELSE S1

onRewardRunResponse_PersistsNow(S, tk, r, t) ==
  LET st == settleTick([tk EXCEPT !.armed = FALSE, !.resp = "done"], S.inFlight)
      S1 == [S EXCEPT !.inFlight = st.inFlight, !.ticks = PutTick(@, tk, st.tick)]
  IN IF r.lastError # "none"
     THEN IF r.lastError \in GoneErrors
          THEN removeRewardParticipant(S1, tk.tabId, tk.frameId)
          ELSE S1
     ELSE IF r.ok /\ r.claimed
          THEN writeRewardCooldownUntil(
                 LogClaim([S1 EXCEPT !.until = t + REWARD_COOLDOWN_MS], tk, t), t)
          ELSE S1

onRewardRunResponse(S, tk, r, t) ==
  LET st == settleTick([tk EXCEPT !.armed = FALSE, !.resp = "done"], S.inFlight)
      S1 == [S EXCEPT !.inFlight = st.inFlight, !.ticks = PutTick(@, tk, st.tick)]
  IN IF r.lastError # "none"
     THEN IF r.lastError \in GoneErrors
          THEN removeRewardParticipant(S1, tk.tabId, tk.frameId)
          ELSE S1
     ELSE IF r.ok /\ r.claimed
          THEN writeRewardCooldownUntil(
                 LogClaim([S1 EXCEPT !.until = t + REWARD_COOLDOWN_MS], tk, t),
                 t + REWARD_COOLDOWN_MS)
          ELSE S1

onTickTimeout_EvictsTarget(S, tk) ==
  LET st == settleTick([tk EXCEPT !.armed = FALSE], S.inFlight)
  IN removeRewardParticipant(
       [S EXCEPT !.inFlight = st.inFlight, !.ticks = PutTick(@, tk, st.tick)],
       tk.tabId, tk.frameId)

\* The setTimeout callback of the dispatch tk (latencyRouter.ts:233-235).
onTickTimeout(S, tk) ==
  LET st == settleTick([tk EXCEPT !.armed = FALSE], S.inFlight)
  IN [S EXCEPT !.inFlight = st.inFlight, !.ticks = PutTick(@, tk, st.tick)]

\* ---------------------------------------------------------------------------
\* Persisted cooldown (latencyRouter.ts:124-159, 270-283)
\* ---------------------------------------------------------------------------

readRewardCooldownUntil_FailureUnnoticed(raw, storeOk) ==
  IF raw > 0 THEN raw ELSE 0

\* readRewardCooldownUntil: Number(result) finite and > 0, else 0; 0 as well
\* when the database or the request fails.
readRewardCooldownUntil(raw, storeOk) ==
  IF storeOk /\ raw > 0 THEN raw ELSE 0

initRewardCooldown_KeepsPast(S, raw, storeOk, t, outcome) ==
  LET storedVal == readRewardCooldownUntil(raw, storeOk)
      S1 == [S EXCEPT !.until = storedVal, !.ready = TRUE]
  IN runRewardSchedulerTick(S1, t, outcome)

\* The part of initRewardCooldown after the read has resolved.
initRewardCooldown(S, raw, storeOk, t, outcome) ==
  LET storedVal == readRewardCooldownUntil(raw, storeOk)
      until == IF storedVal > t THEN storedVal ELSE 0
      S1 == [S EXCEPT !.until = until, !.ready = TRUE]
      S2 == IF storedVal # until THEN writeRewardCooldownUntil(S1, until) ELSE S1
  IN runRewardSchedulerTick(S2, t, outcome)

\* ---------------------------------------------------------------------------
\* JavaScript values and conversions
\* ---------------------------------------------------------------------------

\* A JavaScript value as far as the handlers look at it: its type and its
\* text (of a string, or of a number as written).
JsString(text) == [t |-> "string", v |-> text]

JsNumber(text) == [t |-> "number", v |-> text]

JsUndefined == [t |-> "undefined", v |-> ""]

JsNull == [t |-> "null", v |-> ""]

isString(x) == x.t = "string"

\* isString(v) ? v : ''
StringOrEmpty(x) == IF isString(x) THEN x.v ELSE ""

\* The strings Number() turns into a finite number ('' becomes 0).
NumericTexts == {"", "3", "120"}

\* Number(x): the number as written, "NaN" when x converts to no number;
\* Number(null) is 0.
NumberOf(x) ==
  IF x.t = "number" THEN x.v
  ELSE IF x.t = "null" THEN "0"
  ELSE IF x.t = "string" /\ x.v \in NumericTexts THEN (IF x.v = "" THEN "0" ELSE x.v)
  ELSE "NaN"

isFinite(n) == n \notin {"NaN", "Infinity"}

\* ---------------------------------------------------------------------------
\* Message listener (latencyRouter.ts:289-516) and tabs.onRemoved (518-524)
\* ---------------------------------------------------------------------------

\* A sender's URL: absent, malformed (new URL throws), or parsed, with the
\* pathname as the sequence of its segments ("" last for a trailing slash).
Urls ==
  { [kind |-> "absent", path |-> <<>>],
    [kind |-> "malformed", path |-> <<>>],
    [kind |-> "ok", path |-> <<"live", "x">>],
    [kind |-> "ok", path |-> <<"live", "x", "chat">>],
    [kind |-> "ok", path |-> <<"live", "x", "chat", "">>],
    [kind |-> "ok", path |-> <<"live", "chatx">>] }

\* /\/chat\/?$/.test(u.pathname), false when the URL is absent or malformed.
isChatFrame(sender) ==
  LET path == sender.url.path
      n == Len(path)
  IN /\ sender.url.kind = "ok"
     /\ n >= 1
     /\ \/ path[n] = "chat"
        \/ n >= 2 /\ path[n] = "" /\ path[n - 1] = "chat"

Reply(ok, error) == [ok |-> ok, error |-> error]

NoReply == Reply(FALSE, "no response")

RelayCopy(m, dest) == [m EXCEPT !.fromRouter = TRUE, !.dest = dest]

\* The copies of a telemetry message: one to the extension pages, one to the
\* frames of the sender's tab.
relayCopies(m, sender) ==
  <<RelayCopy(m, "runtime")>>
    \o (IF sender.tabId # NULL THEN <<RelayCopy(m, sender.tabId)>> ELSE <<>>)

relayLatencyData_NoChatCheck(S, m, sender) ==
  IF m.fromRouter THEN S
  ELSE [S EXCEPT !.sent = @ \o relayCopies(m, sender)]

relayLatencyData_NoFromRouterCheck(S, m, sender) ==
  IF isChatFrame(sender) THEN S
  ELSE [S EXCEPT !.sent = @ \o relayCopies(m, sender)]

\* The CHZZK_LATENCY_DATA branch of the listener.
relayLatencyData(S, m, sender) ==
  IF isChatFrame(sender) THEN S
  ELSE IF m.fromRouter THEN S
  ELSE [S EXCEPT !.sent = @ \o relayCopies(m, sender)]

\* Number.isFinite(marginRaw) ? marginRaw : 0.6
MarginOrDefault(marginSec) ==
  IF isFinite(NumberOf(marginSec)) THEN NumberOf(marginSec) ELSE "0.6"

FFApplyMsg(tabId, channelId, marginSec) ==
  [ type |-> "CHZZK_FF_APPLY", dest |-> tabId, channelId |-> channelId,
    marginSec |-> marginSec ]

onSameTabFFRequest_NoChannelCheck(S, m, sender, outcome) ==
  LET channelId == TrimChannelId(m.channelId)
      tabId == sender.tabId
  IN IF tabId = NULL
     THEN [S |-> S, reply |-> Reply(FALSE, "NO_TAB_ID")]
     ELSE [S |-> IF outcome = "thrown" THEN S
                 ELSE [S EXCEPT !.sent = Append(@, FFApplyMsg(tabId, channelId,
                                                    MarginOrDefault(m.marginSec)))],
           reply |-> Reply(TRUE, "")]

\* The CMV_FF_REQUEST branch of the listener (same tab).
onSameTabFFRequest(S, m, sender, outcome) ==
  LET channelId == TrimChannelId(m.channelId)
      tabId == sender.tabId
  IN IF channelId = <<>>
     THEN [S |-> S, reply |-> Reply(FALSE, "EMPTY_CHANNEL_ID")]
     ELSE IF tabId = NULL
     THEN [S |-> S, reply |-> Reply(FALSE, "NO_TAB_ID")]
     ELSE [S |-> IF outcome = "thrown" THEN S
                 ELSE [S EXCEPT !.sent = Append(@, FFApplyMsg(tabId, channelId,
                                                    MarginOrDefault(m.marginSec)))],
           reply |-> Reply(TRUE, "")]

\* The CHZZK_FF_REQUEST branch of the listener (cross tab); the channelId
\* is forwarded untrimmed.
onCrossTabFFRequest(S, m, outcome) ==
  IF m.liveTabId.t # "number"
  THEN [S |-> S, reply |-> Reply(FALSE, "NO_LIVE_TAB_ID")]
  ELSE [S |-> IF outcome = "thrown" THEN S
              ELSE [S EXCEPT !.sent = Append(@, FFApplyMsg(m.liveTabId.v, m.channelId,
                                                 MarginOrDefault(m.marginSec)))],
        reply |-> Reply(TRUE, "")]

\* What chrome.scripting.executeScript does in the turn: the API is absent,
\* or the promise it returns resolves, or rejects.
ScriptingOutcomes == {"absent", "resolves", "rejects"}

ExecuteScript(tabId, frameId, file) ==
  [ type |-> "executeScript", tabId |-> tabId, frameId |-> frameId,
    world |-> "MAIN", file |-> file ]

\* The part the two inject branches share, from the sender check on; the
\* answer is the one the promise gives when it settles.
injectInto(S, sender, file, outcome) ==
  IF sender.tabId = NULL \/ sender.frameId = NULL
  THEN [S |-> S, reply |-> Reply(FALSE, "NO_SENDER")]
  ELSE IF outcome = "absent"
  THEN [S |-> S, reply |-> Reply(FALSE, "NO_SCRIPTING")]
  ELSE [S |-> [S EXCEPT !.sent = Append(@, ExecuteScript(sender.tabId, sender.frameId,
                                                         file))],
        reply |-> IF outcome = "resolves" THEN Reply(TRUE, "")
                  ELSE Reply(FALSE, "String(err?.message ?? err)")]

onChatInject_AnyFrame(S, sender, outcome) ==
  injectInto(S, sender, "background/injectedChatWsHook.js", outcome)

\* The CHZZK_CHAT_INJECT branch of the listener.
onChatInject(S, sender, outcome) ==
  IF ~isChatFrame(sender)
  THEN [S |-> S, reply |-> Reply(FALSE, "NOT_CHAT_FRAME")]
  ELSE injectInto(S, sender, "background/injectedChatWsHook.js", outcome)

\* The CHZZK_LATENCY_INJECT branch of the listener.
onLatencyInject(S, sender, outcome) ==
  IF isChatFrame(sender)
  THEN [S |-> S, reply |-> Reply(FALSE, "CHAT_FRAME")]
  ELSE injectInto(S, sender, "background/injectedMain.js", outcome)

\* A message that is an object has properties; any other value has none.
IsObject(m) == "type" \in DOMAIN m

onUnknownMessage_Answers(S, m) == [S |-> S, reply |-> Reply(FALSE, "UNKNOWN")]

\* console.warn, and nothing else.
onUnknownMessage(S, m) == [S |-> S, reply |-> NoReply]

onRewardPresence_ChannelCheckedFirst(S, m, sender, t, outcome) ==
  IF TrimChannelId(m.channelId) = <<>>
  THEN [S |-> S, reply |-> Reply(FALSE, "EMPTY_CHANNEL_ID")]
  ELSE IF isChatFrame(sender) THEN [S |-> S, reply |-> Reply(FALSE, "CHAT_FRAME")]
  ELSE IF sender.tabId = NULL \/ sender.frameId = NULL
  THEN [S |-> S, reply |-> Reply(FALSE, "NO_SENDER")]
  ELSE
    LET S1 == upsertRewardParticipant(S, sender.tabId, sender.frameId,
                                      TrimChannelId(m.channelId), t)
        S2 == IF m.type = "CHZZK_REWARD_REGISTER"
              THEN runRewardSchedulerTick(S1, t, outcome) ELSE S1
    IN [S |-> S2, reply |-> Reply(TRUE, "")]

\* The CHZZK_REWARD_REGISTER / CHZZK_REWARD_HEARTBEAT branch of the listener.
onRewardPresence_NoTick(S, m, sender, t, outcome) ==
  IF isChatFrame(sender) THEN [S |-> S, reply |-> Reply(FALSE, "CHAT_FRAME")]
  ELSE IF sender.tabId = NULL \/ sender.frameId = NULL
  THEN [S |-> S, reply |-> Reply(FALSE, "NO_SENDER")]
  ELSE IF TrimChannelId(m.channelId) = <<>>
  THEN [S |-> S, reply |-> Reply(FALSE, "EMPTY_CHANNEL_ID")]
  ELSE [S |-> upsertRewardParticipant(S, sender.tabId, sender.frameId,
                                      TrimChannelId(m.channelId), t),
        reply |-> Reply(TRUE, "")]

onRewardPresence(S, m, sender, t, outcome) ==
  IF isChatFrame(sender) THEN [S |-> S, reply |-> Reply(FALSE, "CHAT_FRAME")]
  ELSE IF sender.tabId = NULL \/ sender.frameId = NULL
  THEN [S |-> S, reply |-> Reply(FALSE, "NO_SENDER")]
  ELSE IF TrimChannelId(m.channelId) = <<>>
  THEN [S |-> S, reply |-> Reply(FALSE, "EMPTY_CHANNEL_ID")]
  ELSE
    LET S1 == upsertRewardParticipant(S, sender.tabId, sender.frameId,
                                      TrimChannelId(m.channelId), t)
        S2 == IF m.type = "CHZZK_REWARD_REGISTER"
              THEN runRewardSchedulerTick(S1, t, outcome) ELSE S1
    IN [S |-> S2, reply |-> Reply(TRUE, "")]

onRewardUnregister_RejectsUnknown(S, sender, t, outcome) ==
  IF sender.tabId = NULL \/ sender.frameId = NULL
  THEN [S |-> S, reply |-> Reply(FALSE, "NO_SENDER")]
  ELSE IF ~HasKey(S.parts, sender.tabId, sender.frameId)
  THEN [S |-> S, reply |-> Reply(FALSE, "NOT_REGISTERED")]
  ELSE
    LET S1 == removeRewardParticipant(S, sender.tabId, sender.frameId)
    IN [S |-> runRewardSchedulerTick(S1, t, outcome), reply |-> Reply(TRUE, "")]

\* The CHZZK_REWARD_UNREGISTER branch of the listener.
onRewardUnregister(S, sender, t, outcome) ==
  IF sender.tabId = NULL \/ sender.frameId = NULL
  THEN [S |-> S, reply |-> Reply(FALSE, "NO_SENDER")]
  ELSE
    LET S1 == removeRewardParticipant(S, sender.tabId, sender.frameId)
    IN [S |-> runRewardSchedulerTick(S1, t, outcome), reply |-> Reply(TRUE, "")]

\* The listener: the state after the turn, with the messages sent, and the
\* answer given through sendResponse.
onMessage(S, m, sender, t, outcome) ==
  IF ~IsObject(m) THEN [S |-> S, reply |-> NoReply]
  ELSE IF m.type = "CHZZK_LATENCY_DATA"
  THEN [S |-> relayLatencyData(S, m, sender), reply |-> NoReply]
  ELSE IF m.type = "CMV_FF_REQUEST"
  THEN onSameTabFFRequest(S, m, sender, outcome)
  ELSE IF m.type \in {"CHZZK_REWARD_REGISTER", "CHZZK_REWARD_HEARTBEAT"}
  THEN onRewardPresence(S, m, sender, t, outcome)
  ELSE IF m.type = "CHZZK_REWARD_UNREGISTER"
  THEN onRewardUnregister(S, sender, t, outcome)
  ELSE IF m.type = "CHZZK_CHAT_INJECT" THEN onChatInject(S, sender, outcome)
  ELSE IF m.type = "CHZZK_LATENCY_INJECT" THEN onLatencyInject(S, sender, outcome)
  ELSE IF m.type = "CHZZK_FF_REQUEST" THEN onCrossTabFFRequest(S, m, outcome)
  ELSE onUnknownMessage(S, m)

\* rewardParticipants.forEach with removal of the tab's entries.
RECURSIVE removeEach(_, _)
removeEach(S, victims) ==
  IF victims = <<>> THEN S
  ELSE removeEach(removeRewardParticipant(S, Head(victims).tabId, Head(victims).frameId),
                  Tail(victims))

onTabRemoved_TopFrameOnly(S, tabId) ==
  removeRewardParticipant(S, tabId, 0)

onTabRemoved(S, tabId) ==
  LET OfTab(p) == p.tabId = tabId
  IN removeEach(S, SelectSeq(S.parts, OfTab))

\* ---------------------------------------------------------------------------
\* Bridge content script (multiviewBridge.ts)
\* ---------------------------------------------------------------------------

\* window.location.origin when the bridge starts.
pageOrigin == "https://multiview.example"

\* The state of the bridge as one record, so that a handler's calls compose.
Bridge ==
  [ subs |-> subscribedLatency, requests |-> nameRequests,
    posted |-> <<>>, sent |-> <<>> ]

postToPage_Wildcard(B, message) ==
  [B EXCEPT !.posted = Append(@, [message |-> message, targetOrigin |-> "*"])]

\* window.postMessage(message, pageOrigin)
postToPage(B, message) ==
  [B EXCEPT !.posted = Append(@, [message |-> message, targetOrigin |-> pageOrigin])]

\* handleFetchChannelName up to chrome.runtime.sendMessage; the callback
\* stays pending with channelId and requestId in its closure.
handleFetchChannelName(B, message, runtimeOk) ==
  IF ~runtimeOk THEN B
  ELSE LET channelId == StringOrEmpty(message.channelId)
           requestId == IF isString(message.requestId)
                        THEN message.requestId.v ELSE "req-generated"
       IN IF channelId = "" THEN B
          ELSE [B EXCEPT
                  !.sent = Append(@, [type |-> "FETCH_CHANNEL_NAME", id |-> channelId]),
                  !.requests = Append(@, [channelId |-> channelId,
                                          requestId |-> requestId])]

onChannelNameResponse_AnswersOldest(B, i, res) ==
  LET cb == B.requests[1]
      response ==
        [ type |-> "CMV_FETCH_CHANNEL_NAME_RESPONSE",
          channelId |-> cb.channelId,
          name |-> IF res.present THEN res.name ELSE "null",
          ok |-> res.present /\ res.ok,
          requestId |-> cb.requestId,
          error |-> IF res.present /\ isString(res.error) THEN res.error.v
                    ELSE "undefined" ]
      rest == [ j \in 1 .. Len(B.requests) - 1 |->
                  IF j < i THEN B.requests[j] ELSE B.requests[j + 1] ]
  IN postToPage([B EXCEPT !.requests = rest], response)

\* The callback of the FETCH_CHANNEL_NAME request i runs with res.
onChannelNameResponse(B, i, res) ==
  LET cb == B.requests[i]
      response ==
        [ type |-> "CMV_FETCH_CHANNEL_NAME_RESPONSE",
          channelId |-> cb.channelId,
          name |-> IF res.present THEN res.name ELSE "null",
          ok |-> res.present /\ res.ok,
          requestId |-> cb.requestId,
          error |-> IF res.present /\ isString(res.error) THEN res.error.v
                    ELSE "undefined" ]
      rest == [ j \in 1 .. Len(B.requests) - 1 |->
                  IF j < i THEN B.requests[j] ELSE B.requests[j + 1] ]
  IN postToPage([B EXCEPT !.requests = rest], response)

handleForceFF(B, message, runtimeOk) ==
  IF ~runtimeOk THEN B
  ELSE LET channelId == StringOrEmpty(message.channelId)
           marginSecRaw == NumberOf(message.marginSec)
           marginSec == IF isFinite(marginSecRaw) THEN marginSecRaw ELSE "undefined"
       IN IF channelId = "" THEN B
          ELSE [B EXCEPT !.sent = Append(@, [type |-> "CMV_FF_REQUEST",
                                              channelId |-> channelId,
                                              marginSec |-> marginSec])]

dispatchWebMessage_FetchSubscribes(B, data, runtimeOk) ==
  IF data.type = "CMV_SUBSCRIBE_LATENCY" THEN
    LET id == StringOrEmpty(data.channelId)
    IN IF id # "" THEN [B EXCEPT !.subs = @ \cup {id}] ELSE B
  ELSE IF data.type = "CMV_UNSUBSCRIBE_LATENCY" THEN
    LET id == StringOrEmpty(data.channelId)
    IN IF id # "" THEN [B EXCEPT !.subs = @ \ {id}] ELSE B
  ELSE IF data.type = "CMV_FETCH_CHANNEL_NAME_REQUEST"
  THEN LET id == StringOrEmpty(data.channelId)
       IN handleFetchChannelName(
            IF id # "" THEN [B EXCEPT !.subs = @ \cup {id}] ELSE B, data, runtimeOk)
  ELSE IF data.type = "CMV_FF_REQUEST"
  THEN handleForceFF(B, data, runtimeOk)
  ELSE B

dispatchWebMessage_ResponseAsRequest(B, data, runtimeOk) ==
  IF data.type = "CMV_SUBSCRIBE_LATENCY" THEN
    LET id == StringOrEmpty(data.channelId)
    IN IF id # "" THEN [B EXCEPT !.subs = @ \cup {id}] ELSE B
  ELSE IF data.type = "CMV_UNSUBSCRIBE_LATENCY" THEN
    LET id == StringOrEmpty(data.channelId)
    IN IF id # "" THEN [B EXCEPT !.subs = @ \ {id}] ELSE B
  ELSE IF data.type \in {"CMV_FETCH_CHANNEL_NAME_REQUEST",
                         "CMV_FETCH_CHANNEL_NAME_RESPONSE"}
  THEN handleFetchChannelName(B, data, runtimeOk)
  ELSE IF data.type = "CMV_FF_REQUEST"
  THEN handleForceFF(B, data, runtimeOk)
  ELSE B

\* The switch on data.type of handleWebMessage.
dispatchWebMessage(B, data, runtimeOk) ==
  IF data.type = "CMV_SUBSCRIBE_LATENCY" THEN
    LET id == StringOrEmpty(data.channelId)
    IN IF id # "" THEN [B EXCEPT !.subs = @ \cup {id}] ELSE B
  ELSE IF data.type = "CMV_UNSUBSCRIBE_LATENCY" THEN
    LET id == StringOrEmpty(data.channelId)
    IN IF id # "" THEN [B EXCEPT !.subs = @ \ {id}] ELSE B
  ELSE IF data.type = "CMV_FETCH_CHANNEL_NAME_REQUEST"
  THEN handleFetchChannelName(B, data, runtimeOk)
  ELSE IF data.type = "CMV_FF_REQUEST"
  THEN handleForceFF(B, data, runtimeOk)
  ELSE B

handleWebMessage_NoOriginCheck(B, raw, runtimeOk) ==
  IF raw.source # "window" THEN B
  ELSE IF ~raw.data.isObject THEN B
  ELSE dispatchWebMessage(B, raw.data, runtimeOk)

\* The window 'message' listener. raw.source is "window" for the bridge's
\* own window; raw.data.isObject is false for null and for primitives.
handleWebMessage(B, raw, runtimeOk) ==
  IF raw.source # "window" THEN B
  ELSE IF raw.origin # pageOrigin THEN B
  ELSE IF ~raw.data.isObject THEN B
  ELSE dispatchWebMessage(B, raw.data, runtimeOk)

\* Number.isFinite(n) ? n : 0
FiniteOrZero(x) == IF isFinite(NumberOf(x)) THEN NumberOf(x) ELSE "0"

LatencyUpdate(channelId, msg) ==
  [ type |-> "CMV_LATENCY_UPDATE",
    channelId |-> channelId,
    latencyMs |-> FiniteOrZero(msg.latencyMs),
    bufferedEnd |-> FiniteOrZero(msg.bufferedEnd),
    currentTime |-> FiniteOrZero(msg.currentTime) ]

handleRuntimeMessage_NoSubscriptionCheck(B, msg) ==
  IF ~msg.isObject THEN B
  ELSE IF msg.type = "" THEN B
  ELSE IF msg.type # "CHZZK_LATENCY_DATA" THEN B
  ELSE LET channelId == StringOrEmpty(msg.channelId)
       IN IF channelId = "" THEN B
          ELSE postToPage(B, LatencyUpdate(channelId, msg))

\* The chrome.runtime.onMessage listener of the bridge; msg.type "" stands
\* for a missing type.
handleRuntimeMessage(B, msg) ==
  IF ~msg.isObject THEN B
  ELSE IF msg.type = "" THEN B
  ELSE IF msg.type # "CHZZK_LATENCY_DATA" THEN B
  ELSE LET channelId == StringOrEmpty(msg.channelId)
       IN IF channelId = "" THEN B
          ELSE IF channelId \notin B.subs THEN B
          ELSE postToPage(B, LatencyUpdate(channelId, msg))

\* ---------------------------------------------------------------------------
\* Name resolver (fetchChannelName.ts)
\* ---------------------------------------------------------------------------

\* String.prototype.toLowerCase, on the letters that occur.
LowerChar(c) == IF c = "A" THEN "a" ELSE IF c = "B" THEN "b" ELSE c

ToLowerCase(text) == [ i \in DOMAIN text |-> LowerChar(text[i]) ]

\* A property that is absent, where strings are sequences of characters.
NoText == [t |-> "undefined", v |-> <<>>]

\* String(msg.id ?? '').trim().toLowerCase()
NormalizeId(id) == IF isString(id) THEN ToLowerCase(TrimChannelId(id.v)) ELSE <<>>

\* null or undefined as a name; a name that is a string is never empty.
NullName == <<>>

NameReply(ok, name, error) == [ok |-> ok, name |-> name, error |-> error]

NoNameReply == NameReply(FALSE, NullName, "no response")

\* The state of the resolver as one record.
Resolver ==
  [ cache |-> channelCache, fetches |-> nameFetches, out |-> NoNameReply, net |-> <<>> ]

CacheSet(cache, id, name) ==
  [ x \in DOMAIN cache \cup {id} |-> IF x = id THEN name ELSE cache[x] ]

isFetchChannelRequest(msg) == IsObject(msg) /\ msg.type = "FETCH_CHANNEL_NAME"

\* The listener up to the call of fetch.
onFetchChannelName(N, msg) ==
  IF ~isFetchChannelRequest(msg) THEN N
  ELSE LET id == NormalizeId(msg.id)
       IN IF id = <<>> THEN [N EXCEPT !.out = NameReply(FALSE, NullName, "EMPTY_ID")]
          ELSE IF id \in DOMAIN N.cache
          THEN [N EXCEPT !.out = NameReply(TRUE, N.cache[id], "")]
          ELSE [N EXCEPT !.fetches = Append(@, id), !.net = Append(@, id)]

\* How a fetch ends: fetch rejects; a response with res.ok false; a body
\* that is no JSON; a payload with another code or none; a payload with
\* code 200 and a channelName, which may be blank or missing.
FetchResults ==
  { [kind |-> "rejects", status |-> "", code |-> "", channelName |-> NoText],
    [kind |-> "response", status |-> "404", code |-> "", channelName |-> NoText],
    [kind |-> "no json", status |-> "200", code |-> "", channelName |-> NoText],
    [kind |-> "json", status |-> "200", code |-> "500", channelName |-> NoText],
    [kind |-> "json", status |-> "200", code |-> "undefined", channelName |-> NoText],
    [kind |-> "json", status |-> "200", code |-> "200", channelName |-> JsString(<<" ", "N">>)],
    [kind |-> "json", status |-> "200", code |-> "200", channelName |-> JsString(<<" ">>)],
    [kind |-> "json", status |-> "200", code |-> "200", channelName |-> NoText] }

\* typeof rawName === 'string' && rawName.trim() ? rawName.trim() : null
NameOf(rawName) ==
  IF isString(rawName) /\ TrimChannelId(rawName.v) # <<>>
  THEN TrimChannelId(rawName.v) ELSE NullName

Without(fetches, i) ==
  [ j \in 1 .. Len(fetches) - 1 |-> IF j < i THEN fetches[j] ELSE fetches[j + 1] ]

onFetchSettled_CachesFailures(N, i, res) ==
  LET id == N.fetches[i]
      N1 == [N EXCEPT !.fetches = Without(@, i)]
  IN IF res.kind = "rejects" \/ res.kind = "no json"
     THEN [N1 EXCEPT !.out = NameReply(FALSE, NullName, "FETCH_ERROR")]
     ELSE IF res.status # "200"
     THEN [N1 EXCEPT !.out = NameReply(FALSE, NullName, "HTTP_" \o res.status)]
     ELSE IF res.code # "200"
     THEN [N1 EXCEPT !.cache = CacheSet(@, id, NullName),
                     !.out = NameReply(FALSE, NullName,
                                       "CODE_" \o (IF res.code = "undefined"
                                                   THEN "UNKNOWN" ELSE res.code))]
     ELSE [N1 EXCEPT !.cache = CacheSet(@, id, NameOf(res.channelName)),
                     !.out = NameReply(TRUE, NameOf(res.channelName), "")]

\* The rest of the listener's async function, once the fetch i has ended
\* with res.
onFetchSettled(N, i, res) ==
  LET id == N.fetches[i]
      N1 == [N EXCEPT !.fetches = Without(@, i)]
  IN IF res.kind = "rejects" \/ res.kind = "no json"
     THEN [N1 EXCEPT !.out = NameReply(FALSE, NullName, "FETCH_ERROR")]
     ELSE IF res.status # "200"
     THEN [N1 EXCEPT !.out = NameReply(FALSE, NullName, "HTTP_" \o res.status)]
     ELSE IF res.code # "200"
     THEN [N1 EXCEPT !.out = NameReply(FALSE, NullName,
                                       "CODE_" \o (IF res.code = "undefined"
                                                   THEN "UNKNOWN" ELSE res.code))]
     ELSE [N1 EXCEPT !.cache = CacheSet(@, id, NameOf(res.channelName)),
                     !.out = NameReply(TRUE, NameOf(res.channelName), "")]

\* ---------------------------------------------------------------------------
\* The state machine
\* ---------------------------------------------------------------------------

Keys == UNION { { <<tb, fr>> : fr \in FramesOf(tb) } : tb \in Tabs }

KeyOf(p) == <<p.tabId, p.frameId>>

KeySeq(parts) == [ i \in 1 .. Len(parts) |-> KeyOf(parts[i]) ]

Event(type) == [type |-> type, flagged |-> FALSE]

BridgeEvent(kind, source, origin, type, channelId) ==
  [kind |-> kind, source |-> source, origin |-> origin, type |-> type,
   channelId |-> channelId]

NoBridgeEvent == BridgeEvent("none", "", "", "", "")

NameEvent(kind, id) == [kind |-> kind, id |-> id]

NoNameEvent == NameEvent("none", <<>>)

Init ==
  /\ now = StartTime
  /\ rewardParticipants = <<>>
  /\ rewardRoundRobinCursor = 0
  /\ rewardCooldownUntil = 0
  /\ rewardTickInFlight = FALSE
  /\ rewardCooldownReady = FALSE
  /\ rewardSchedulerIntervalId = NULL
  /\ ticks = {}
  /\ stored \in StoredAtStart
  /\ pendingWrites = <<>>
  /\ advances = 0
  /\ lastClaimAt = NULL
  /\ sent = <<>>
  /\ lastIn = Event("start")
  /\ reply = NoReply
  /\ picks = <<>>
  /\ waited = [k \in Keys |-> 0]
  /\ subscribedLatency = {}
  /\ nameRequests = <<>>
  /\ posted = <<>>
  /\ runtimeSent = <<>>
  /\ bridgeIn = NoBridgeEvent
  /\ closedTabs = {}
  /\ channelCache = <<>>
  /\ nameFetches = <<>>
  /\ nameIn = NoNameEvent
  /\ nameOut = NoNameReply
  /\ nameNet = <<>>

WithinBounds(S) ==
  /\ Cardinality(S.ticks) <= MaxOutstanding
  /\ Len(S.writes) <= MaxWrites

\* A turn that is not a turn of the message listener, recorded as the event
\* ev, with the tabs in closed closed so far.
TurnAs(S, ev, closed) ==
  /\ \E after \in {S} : WithinBounds(after) /\ Install(after)
  /\ lastIn' = ev
  /\ reply' = NoReply
  /\ closedTabs' = closed
  /\ UNCHANGED << now, stored, advances, picks, waited >>
  /\ UNCHANGED << bridgeVars, nameVars >>

Turn(S) == TurnAs(S, Event("none"), closedTabs)

\* Time passes.
Advance(d) ==
  /\ advances < MaxAdvances
  /\ now' = now + d
  /\ advances' = advances + 1
  /\ sent' = <<>>
  /\ lastIn' = Event("none")
  /\ reply' = NoReply
  /\ UNCHANGED << rewardParticipants, rewardRoundRobinCursor, rewardCooldownUntil,
                  rewardTickInFlight, rewardCooldownReady, rewardSchedulerIntervalId,
                  ticks, stored, pendingWrites, lastClaimAt, picks, waited >>
  /\ UNCHANGED << bridgeVars, closedTabs, nameVars >>

\* The read of the persisted cooldown resolves and initRewardCooldown resumes.
InitCooldownDone(storeOk, outcome) ==
  /\ ~rewardCooldownReady
  /\ Turn(initRewardCooldown(State, stored, storeOk, now, outcome))

\* The content script in the top frame of a tab announces itself: a tab
\* watches one channel, and sends it padded or not.
ChannelOfTab(tabId) == IF tabId % 2 = 1 THEN <<"a">> ELSE <<" ", "b", " ">>

LiveSender(tabId) ==
  [tabId |-> tabId, frameId |-> 0, url |-> [kind |-> "ok", path |-> <<"live", "x">>]]

Presence(type, tabId, outcome) ==
  Turn(onMessage(State,
                 [type |-> type, channelId |-> ChannelOfTab(tabId),
                  fromRouter |-> FALSE, dest |-> "router"],
                 LiveSender(tabId), now, outcome).S)

\* chrome.tabs.onRemoved
TabRemoved(tabId) == Turn(onTabRemoved(State, tabId))

\* The interval timer fires.
IntervalTick(outcome) ==
  /\ rewardSchedulerIntervalId # NULL
  /\ Turn(runRewardSchedulerTick(State, now, outcome))

\* The response timeout of a dispatch fires.
TickTimeout(tk) ==
  /\ tk \in ticks
  /\ tk.armed
  /\ now >= tk.dispatchedAt + REWARD_RUN_RESPONSE_TIMEOUT_MS
  /\ Turn(onTickTimeout(State, tk))

\* The response callback of a dispatch runs.
TickResponse(tk, r) ==
  /\ tk \in ticks
  /\ tk.resp = "pending"
  /\ Turn(onRewardRunResponse(State, tk, r, now))

\* A store.put completes (or fails, silently).
WriteDone(storeOk) ==
  /\ pendingWrites # <<>>
  /\ stored' = IF storeOk THEN Head(pendingWrites) ELSE stored
  /\ pendingWrites' = Tail(pendingWrites)
  /\ sent' = <<>>
  /\ lastIn' = Event("none")
  /\ reply' = NoReply
  /\ UNCHANGED << now, rewardParticipants, rewardRoundRobinCursor, rewardCooldownUntil,
                  rewardTickInFlight, rewardCooldownReady, rewardSchedulerIntervalId,
                  ticks, advances, lastClaimAt, picks, waited >>
  /\ UNCHANGED << bridgeVars, closedTabs, nameVars >>

RewardTypes ==
  {"CHZZK_REWARD_REGISTER", "CHZZK_REWARD_HEARTBEAT", "CHZZK_REWARD_UNREGISTER"}

Next ==
  \/ \E d \in TimeSteps : Advance(d)
  \/ \E storeOk \in BOOLEAN, outcome \in SendOutcomes : InitCooldownDone(storeOk, outcome)
  \/ \E type \in RewardTypes, tabId \in Tabs, outcome \in SendOutcomes :
       Presence(type, tabId, outcome)
  \/ \E tabId \in Tabs : TabRemoved(tabId)
  \/ \E outcome \in SendOutcomes : IntervalTick(outcome)
  \/ \E tk \in ticks : TickTimeout(tk)
  \/ \E tk \in ticks, r \in Responses : TickResponse(tk, r)
  \/ \E storeOk \in BOOLEAN : WriteDone(storeOk)

\* The scheduler, the registry and the store, with time.
Spec == Init /\ [][Next]_vars

\* ---------------------------------------------------------------------------
\* The message listener on its own: any message from any sender, no clock
\* ---------------------------------------------------------------------------

LatencyMsgs ==
  { [type |-> "CHZZK_LATENCY_DATA", channelId |-> <<"a">>, fromRouter |-> f,
     dest |-> "router"] : f \in BOOLEAN }

\* UNREGISTER carries no channelId.
RewardMsgs ==
  { [type |-> ty, channelId |-> c, fromRouter |-> FALSE, dest |-> "router"] :
      ty \in RewardTypes \ {"CHZZK_REWARD_UNREGISTER"}, c \in RawChannelIds }
  \cup { [type |-> "CHZZK_REWARD_UNREGISTER", channelId |-> <<>>,
          fromRouter |-> FALSE, dest |-> "router"] }

\* Who sends: a frame of a tab, showing a live page or a chat page, or an
\* extension page (no tab).
Senders ==
  { [tabId |-> k[1], frameId |-> k[2], url |-> u] :
      k \in Keys, u \in { v \in Urls : Len(v.path) \in {2, 4} } }
  \cup { [tabId |-> NULL, frameId |-> NULL, url |-> [kind |-> "absent", path |-> <<>>]] }

\* A send can only throw in a turn that runs a scheduler tick.
OutcomesFor(m) ==
  IF ~IsObject(m) THEN {"started"}
  ELSE IF m.type \in {"CHZZK_REWARD_REGISTER", "CHZZK_REWARD_UNREGISTER",
                      "CMV_FF_REQUEST", "CHZZK_FF_REQUEST"}
  THEN SendOutcomes
  ELSE IF m.type \in {"CHZZK_CHAT_INJECT", "CHZZK_LATENCY_INJECT"}
  THEN ScriptingOutcomes
  ELSE {"started"}

\* A message reaches chrome.runtime.onMessage.
Message(m, sender, outcome) ==
  /\ \E r \in {onMessage(State, m, sender, now, outcome)} :
       WithinBounds(r.S) /\ Install(r.S) /\ reply' = r.reply
  /\ lastIn' = (IF IsObject(m) THEN [type |-> m.type, flagged |-> m.fromRouter]
                 ELSE Event("not an object"))
  /\ UNCHANGED << now, stored, advances, picks, waited >>
  /\ UNCHANGED << bridgeVars, closedTabs, nameVars >>

\* A copy the router relayed in the last turn comes back to the listener.
RelayFeedback(i, sender) ==
  /\ i \in DOMAIN sent
  /\ sent[i].type = "CHZZK_LATENCY_DATA"
  /\ Message(sent[i], sender, "started")

RouterNext ==
  \/ \E storeOk \in BOOLEAN, outcome \in SendOutcomes : InitCooldownDone(storeOk, outcome)
  \/ \E m \in LatencyMsgs \cup RewardMsgs, sender \in Senders :
       \E outcome \in OutcomesFor(m) : Message(m, sender, outcome)
  \/ \E i \in 1 .. 2, sender \in Senders : RelayFeedback(i, sender)
  \/ \E tabId \in Tabs : TabRemoved(tabId)
  \/ \E tk \in ticks, r \in Responses : TickResponse(tk, r)
  \/ \E storeOk \in BOOLEAN : WriteDone(storeOk)

\* A fresh install: nothing persisted.
RouterInit == Init /\ stored = NULL

RouterSpec == RouterInit /\ [][RouterNext]_vars

\* ---------------------------------------------------------------------------
\* The registry on its own: its operations applied in any order
\* ---------------------------------------------------------------------------

\* The clock moves by one scheduler interval, by exactly the stale
\* threshold, or by just more than it.
RegistryTimeSteps ==
  { REWARD_SCHEDULE_INTERVAL_MS, REWARD_HEARTBEAT_STALE_MS, REWARD_HEARTBEAT_STALE_MS + 1 }

\* The selections remembered: two rounds of the current registry.
Window(parts) == 2 * Len(parts)

LastOf(s, n) == IF Len(s) <= n THEN s ELSE SubSeq(s, Len(s) - n + 1, Len(s))

\* A registry operation that selects nothing: the selections remembered are
\* forgotten when the registered keys change, and a participant's count of
\* selections that passed it over restarts when it is not registered.
RegistryChange(S, ev) ==
  /\ Install(S)
  /\ picks' = IF KeySeq(S.parts) = KeySeq(rewardParticipants) THEN picks ELSE <<>>
  /\ waited' = [k \in Keys |-> IF HasKey(S.parts, k[1], k[2]) THEN waited[k] ELSE 0]
  /\ lastIn' = ev
  /\ reply' = NoReply
  /\ UNCHANGED << now, stored, advances >>
  /\ UNCHANGED << bridgeVars, closedTabs, nameVars >>

Upsert(k) ==
  RegistryChange(upsertRewardParticipant(State, k[1], k[2],
                                         TrimChannelId(ChannelOfTab(k[1])), now),
                 Event("none"))

Remove(k) == RegistryChange(removeRewardParticipant(State, k[1], k[2]), Event("none"))

CloseTab(tabId) == RegistryChange(onTabRemoved(State, tabId), Event("tabs.onRemoved"))

\* getRewardNextTarget is called.  The turn records whether the cursor it
\* found pointed beyond the end of the pruned list.
Select ==
  LET r == getRewardNextTarget(State, now)
      key == KeyOf(r.target)
      kept == IF KeySeq(r.S.parts) = KeySeq(rewardParticipants) THEN picks ELSE <<>>
  IN /\ Install(r.S)
     /\ picks' = IF r.found THEN LastOf(Append(kept, key), Window(r.S.parts)) ELSE <<>>
     /\ waited' = [k \in Keys |->
                     IF ~HasKey(r.S.parts, k[1], k[2]) THEN 0
                     ELSE IF r.found /\ k = key THEN 0
                     ELSE waited[k] + 1]
     /\ lastIn' = Event(IF r.found /\ rewardRoundRobinCursor >= Len(r.S.parts)
                        THEN "selection, cursor beyond the end" ELSE "none")
     /\ reply' = NoReply
     /\ UNCHANGED << now, stored, advances >>
     /\ UNCHANGED << bridgeVars, closedTabs, nameVars >>

RegistryNext ==
  \/ \E d \in RegistryTimeSteps : Advance(d)
  \/ \E k \in Keys : Upsert(k)
  \/ \E k \in Keys : Remove(k)
  \/ \E tabId \in Tabs : CloseTab(tabId)
  \/ Select

RegistrySpec == RouterInit /\ [][RegistryNext]_vars

\* ---------------------------------------------------------------------------
\* The life of a tab: its frames register, the tab is closed, and messages
\* its frames sent before that, and responses to dispatches, are still handled
\* afterwards.  The handlers are those of Spec; the turns record which tab
\* was closed and which response arrived.  No clock.

\* chrome.tabs.onRemoved, once per tab: a tab id is not used again.
TabClosed(tabId) ==
  /\ tabId \notin closedTabs
  /\ TurnAs(onTabRemoved(State, tabId), Event("tabs.onRemoved"),
            closedTabs \cup {tabId})

ResponseEvent(r) ==
  Event(IF r.lastError # "none" THEN r.lastError
        ELSE IF r.ok /\ r.claimed THEN "claimed" ELSE "not claimed")

\* The response callback of a dispatch runs.
ResponseArrives(tk, r) ==
  /\ tk \in ticks
  /\ tk.resp = "pending"
  /\ TurnAs(onRewardRunResponse(State, tk, r, now), ResponseEvent(r), closedTabs)

TabNext ==
  \/ \E storeOk \in BOOLEAN, outcome \in SendOutcomes : InitCooldownDone(storeOk, outcome)
  \/ \E type \in RewardTypes, tabId \in Tabs, outcome \in SendOutcomes :
       Presence(type, tabId, outcome)
  \/ \E tabId \in Tabs : TabClosed(tabId)
  \/ \E outcome \in SendOutcomes : IntervalTick(outcome)
  \/ \E tk \in ticks, r \in Responses : ResponseArrives(tk, r)
  \/ \E storeOk \in BOOLEAN : WriteDone(storeOk)

TabSpec == RouterInit /\ [][TabNext]_vars

\* ---------------------------------------------------------------------------
\* The scheduler with a clock, each turn recording what it handled: the
\* message of a content script, the interval timer, the timeout of a
\* dispatch, a response that arrives before or after that timeout.

\* What the content script in the top frame of a tab sends.
PresenceMsg(type, tabId) ==
  [type |-> type, channelId |-> ChannelOfTab(tabId), fromRouter |-> FALSE,
   dest |-> "router"]

\* The interval timer fires.
IntervalFires(outcome) ==
  /\ rewardSchedulerIntervalId # NULL
  /\ TurnAs(runRewardSchedulerTick(State, now, outcome), Event("interval"), closedTabs)

\* The response timeout of a dispatch fires.
TimeoutFires(tk) ==
  /\ tk \in ticks
  /\ tk.armed
  /\ now >= tk.dispatchedAt + REWARD_RUN_RESPONSE_TIMEOUT_MS
  /\ TurnAs(onTickTimeout(State, tk), Event("timeout"), closedTabs)

\* The response callback of a dispatch runs before its timeout has fired.
TimelyResponse(tk, r) ==
  /\ tk \in ticks
  /\ tk.resp = "pending"
  /\ ~tk.settled
  /\ TurnAs(onRewardRunResponse(State, tk, r, now), ResponseEvent(r), closedTabs)

\* The response callback of a dispatch runs after its timeout has fired.
LateResponse(tk, r) ==
  /\ tk \in ticks
  /\ tk.resp = "pending"
  /\ tk.settled
  /\ TurnAs(onRewardRunResponse(State, tk, r, now), Event("late response"), closedTabs)

\* The responses that differ in what the callback does: the receiving end is
\* gone, another error, a claim, no claim.
ResponseKinds ==
  { r \in Responses :
      /\ r.lastError \in {"none", "No tab with id", "The message port closed"}
      /\ r.ok = r.claimed }

\* The clock moves by the response timeout, or by just more than the stale
\* threshold.
TickTimeSteps == { REWARD_RUN_RESPONSE_TIMEOUT_MS, REWARD_HEARTBEAT_STALE_MS + 1 }

TickNext ==
  \/ \E d \in TickTimeSteps : Advance(d)
  \/ \E storeOk \in BOOLEAN, outcome \in SendOutcomes : InitCooldownDone(storeOk, outcome)
  \/ \E type \in RewardTypes, tabId \in Tabs, outcome \in SendOutcomes :
       Message(PresenceMsg(type, tabId), LiveSender(tabId), outcome)
  \/ \E tabId \in Tabs : TabRemoved(tabId)
  \/ \E outcome \in SendOutcomes : IntervalFires(outcome)
  \/ \E tk \in ticks : TimeoutFires(tk)
  \/ \E tk \in ticks, r \in ResponseKinds : TimelyResponse(tk, r)
  \/ \E tk \in ticks, r \in ResponseKinds : LateResponse(tk, r)
  \/ WriteDone(TRUE)

TickSpec == RouterInit /\ [][TickNext]_vars

\* ---------------------------------------------------------------------------
\* Registration over and over: any player frame announces itself, with the
\* channel it shows at that moment, leaves, and comes back; dispatches are
\* answered.  A turn records whether the frame was registered, and with
\* which channel.  No clock.

\* The channels a frame may show.
Channels == { <<"a">>, <<"b">> }

FrameSender(k) ==
  [tabId |-> k[1], frameId |-> k[2], url |-> [kind |-> "ok", path |-> <<"live", "x">>]]

ChannelMsg(type, c) ==
  [type |-> type, channelId |-> c, fromRouter |-> FALSE, dest |-> "router"]

\* The channelId the registry holds for the key k.
RegisteredChannel(parts, k) ==
  LET Is(p) == SameKey(p, k[1], k[2]) IN SelectSeq(parts, Is)[1].channelId

\* What a turn of the listener is, seen from the registry.
AnnounceEvent(type, k, c) ==
  Event(IF type = "CHZZK_REWARD_UNREGISTER" THEN "unregister"
        ELSE IF ~HasKey(rewardParticipants, k[1], k[2]) THEN "new registration"
        ELSE IF RegisteredChannel(rewardParticipants, k) = c
        THEN "registered again"
        ELSE "registered again with another channelId")

\* A REGISTER, HEARTBEAT or UNREGISTER from the frame k reaches the listener.
Announce(type, k, c, outcome) ==
  TurnAs(onMessage(State, ChannelMsg(type, c), FrameSender(k), now, outcome).S,
         AnnounceEvent(type, k, c), closedTabs)

\* The responses that leave the cooldown alone.
Unclaimed == { r \in Responses : ~(r.lastError = "none" /\ r.ok /\ r.claimed) }

RotationNext ==
  \/ \E storeOk \in BOOLEAN, outcome \in SendOutcomes : InitCooldownDone(storeOk, outcome)
  \/ \E type \in RewardTypes, k \in Keys, c \in Channels :
       Announce(type, k, c, "started")
  \/ \E tk \in ticks, r \in Unclaimed : TickResponse(tk, r)

RotationSpec == RouterInit /\ [][RotationNext]_vars

\* ---------------------------------------------------------------------------
\* Progress of the scheduler.  The frame of tab 1 is the participant that
\* stays: it never leaves and its heartbeats keep coming; tab 2 registers,
\* leaves and is closed at will.  Sends start.  The timers fire and time
\* passes, as far as the clock of the model goes.

Heartbeat1 ==
  Message(PresenceMsg("CHZZK_REWARD_HEARTBEAT", 1), LiveSender(1), "started")

SomeTimeoutFires == \E tk \in ticks : TimeoutFires(tk)

\* The clock moves by the response timeout, or by the cooldown (after which
\* every heartbeat received before is stale).
LiveTimeSteps == { REWARD_RUN_RESPONSE_TIMEOUT_MS, REWARD_COOLDOWN_MS }

TimePasses == \E d \in LiveTimeSteps : Advance(d)

LiveNext ==
  \/ TimePasses
  \/ InitCooldownDone(TRUE, "started")
  \/ Heartbeat1
  \/ Message(PresenceMsg("CHZZK_REWARD_REGISTER", 1), LiveSender(1), "started")
  \/ \E type \in {"CHZZK_REWARD_REGISTER", "CHZZK_REWARD_UNREGISTER"} :
       Message(PresenceMsg(type, 2), LiveSender(2), "started")
  \/ TabRemoved(2)
  \/ IntervalFires("started")
  \/ SomeTimeoutFires
  \/ \E tk \in ticks, r \in ResponseKinds : TickResponse(tk, r)
  \/ WriteDone(TRUE)

\* setInterval and setTimeout callbacks run when due, the clock moves, and
\* the content script of tab 1 sends its heartbeats.
LiveSpec ==
  /\ RouterInit
  /\ [][LiveNext]_vars
  /\ WF_vars(IntervalFires("started"))
  /\ WF_vars(SomeTimeoutFires)
  /\ WF_vars(TimePasses)
  /\ WF_vars(Heartbeat1)

\* ---------------------------------------------------------------------------
\* The branches of the listener that keep no state: fast-forward requests,
\* injection requests, telemetry, and what the listener does not know; with
\* registrations and dispatches going on.  No clock.

MarginValues == { JsNumber("3"), JsUndefined, JsNull }

LiveTabIdValues == { [t |-> "number", v |-> 2], JsUndefined, JsString("2") }

\* The same-tab request names no tab; the cross-tab request does.
FFMsgs ==
  { [type |-> "CMV_FF_REQUEST", channelId |-> c, marginSec |-> mg,
     liveTabId |-> JsUndefined, fromRouter |-> FALSE, dest |-> "router"] :
      c \in RawChannelIds, mg \in MarginValues }
  \cup
  { [type |-> "CHZZK_FF_REQUEST", channelId |-> c, marginSec |-> mg,
     liveTabId |-> lt, fromRouter |-> FALSE, dest |-> "router"] :
      c \in {<<>>, <<" ", "a", " ">>}, mg \in MarginValues, lt \in LiveTabIdValues }

InjectMsgs ==
  { [type |-> ty, channelId |-> <<>>, fromRouter |-> FALSE, dest |-> "router"] :
      ty \in {"CHZZK_CHAT_INJECT", "CHZZK_LATENCY_INJECT"} }

\* A message of another listener's protocol, and a message that is a string.
UnknownMsgs ==
  { [type |-> "FETCH_CHANNEL_NAME", channelId |-> <<"a">>, fromRouter |-> FALSE,
     dest |-> "router"],
    [primitive |-> "text"] }

RegisterMsg ==
  [ type |-> "CHZZK_REWARD_REGISTER", channelId |-> <<"a">>, fromRouter |-> FALSE,
    dest |-> "router" ]

\* A live page and its chat frame in tab 1, a frame of tab 2 whose URL does
\* not parse, and an extension page.
ForwardSenders ==
  { [tabId |-> 1, frameId |-> 0, url |-> [kind |-> "ok", path |-> <<"live", "x">>]],
    [tabId |-> 1, frameId |-> 1, url |-> [kind |-> "ok", path |-> <<"live", "x", "chat">>]],
    [tabId |-> 2, frameId |-> 0, url |-> [kind |-> "malformed", path |-> <<>>]],
    [tabId |-> NULL, frameId |-> NULL, url |-> [kind |-> "absent", path |-> <<>>]] }

ForwardNext ==
  \/ \E storeOk \in BOOLEAN, outcome \in SendOutcomes : InitCooldownDone(storeOk, outcome)
  \/ \E m \in FFMsgs \cup InjectMsgs \cup UnknownMsgs \cup LatencyMsgs \cup {RegisterMsg},
        sender \in ForwardSenders :
       \E outcome \in OutcomesFor(m) : Message(m, sender, outcome)
  \/ \E tk \in ticks, r \in Responses : TickResponse(tk, r)

ForwardSpec == RouterInit /\ [][ForwardNext]_vars

\* ---------------------------------------------------------------------------
\* The name resolver (fetchChannelName.ts): requests and the ends of the
\* fetches they start, in any order.

\* msg.id as received: in either letter case, padded, of another channel,
\* empty, absent.
NameIds ==
  { JsString(<<"a">>), JsString(<<"A">>), JsString(<<" ", "a">>), JsString(<<"b">>),
    JsString(<<>>), NoText }

NameMsgs ==
  { [type |-> "FETCH_CHANNEL_NAME", id |-> id] : id \in NameIds }
  \cup { [type |-> "CHZZK_LATENCY_DATA", id |-> NoText], [primitive |-> "text"] }

NameTurn(N, ev) ==
  /\ Len(N.fetches) <= MaxFetches
  /\ channelCache' = N.cache
  /\ nameFetches' = N.fetches
  /\ nameOut' = N.out
  /\ nameNet' = N.net
  /\ nameIn' = ev
  /\ UNCHANGED << routerVars, bridgeVars >>

\* A message reaches the resolver's chrome.runtime.onMessage listener.
NameRequest(msg) ==
  NameTurn(onFetchChannelName(Resolver, msg),
           NameEvent(IF isFetchChannelRequest(msg) THEN "request" ELSE "other message",
                     IF isFetchChannelRequest(msg) THEN msg.id.v ELSE <<>>))

\* A fetch ends.
FetchSettled(i, res) ==
  /\ i \in DOMAIN nameFetches
  /\ NameTurn(onFetchSettled(Resolver, i, res), NameEvent("settled", nameFetches[i]))

NameNext ==
  \/ \E msg \in NameMsgs : NameRequest(msg)
  \/ \E i \in 1 .. MaxFetches + 1, res \in FetchResults : FetchSettled(i, res)

NameSpec == RouterInit /\ [][NameNext]_vars

\* ---------------------------------------------------------------------------
\* The bridge: page messages, runtime messages and callbacks in any order
\* ---------------------------------------------------------------------------

\* channelId as the page or the background sends it: an identifier, the
\* empty string, or not a string.
ChannelValues == { JsString("a"), JsString("b"), JsString(""), JsNumber("7") }

WebData(type, channelId, requestId, marginSec) ==
  [ isObject |-> TRUE, type |-> type, channelId |-> channelId,
    requestId |-> requestId, marginSec |-> marginSec ]

\* event.data of a page message: the four requests of the protocol, the
\* page-bound messages, an unknown type, no type, and a primitive.
WebDatas ==
  { WebData(ty, c, JsUndefined, JsUndefined) :
      ty \in {"CMV_SUBSCRIBE_LATENCY", "CMV_UNSUBSCRIBE_LATENCY"}, c \in ChannelValues }
  \cup { WebData("CMV_FETCH_CHANNEL_NAME_REQUEST", c, r, JsUndefined) :
           c \in ChannelValues \ {JsString("b")}, r \in {JsString("r1"), JsUndefined} }
  \cup { WebData("CMV_FF_REQUEST", c, JsUndefined, mg) :
           c \in {JsString("a"), JsString("")},
           mg \in {JsNumber("3"), JsString("120"), JsUndefined} }
  \cup { WebData(ty, JsString("a"), JsUndefined, JsUndefined) :
           ty \in {"CMV_LATENCY_UPDATE", "CMV_OTHER", ""} }
  \cup { [WebData("", JsUndefined, JsUndefined, JsUndefined) EXCEPT !.isObject = FALSE] }

\* A message event: from the bridge's own window or from another window
\* (an embedded frame), with the page's origin or another one.
WebEvents ==
  { [source |-> src, origin |-> o, data |-> d] :
      src \in {"window", "frame"}, o \in {pageOrigin, "https://other.example"},
      d \in WebDatas }

RuntimeMsg(type, channelId, n) ==
  [ isObject |-> TRUE, type |-> type, channelId |-> channelId,
    latencyMs |-> n, bufferedEnd |-> n, currentTime |-> n ]

\* What the bridge receives from the background.
RuntimeMsgs ==
  { RuntimeMsg("CHZZK_LATENCY_DATA", c, n) :
      c \in ChannelValues, n \in {JsNumber("120"), JsUndefined} }
  \cup { RuntimeMsg(ty, JsString("a"), JsUndefined) : ty \in {"CHZZK_FF_APPLY", "OTHER", ""} }
  \cup { [RuntimeMsg("", JsUndefined, JsUndefined) EXCEPT !.isObject = FALSE] }

\* What the background answers to FETCH_CHANNEL_NAME: nothing (lastError),
\* a name, or an error.
NameResults ==
  { [present |-> FALSE, ok |-> FALSE, name |-> "null", error |-> JsUndefined],
    [present |-> TRUE, ok |-> TRUE, name |-> "Name", error |-> JsUndefined],
    [present |-> TRUE, ok |-> FALSE, name |-> "null", error |-> JsString("NOT_FOUND")] }

\* A turn of the bridge.
BridgeTurn(B, ev) ==
  /\ \E after \in {B} :
       /\ Len(after.requests) <= MaxNameRequests
       /\ subscribedLatency' = after.subs
       /\ nameRequests' = after.requests
       /\ posted' = after.posted
       /\ runtimeSent' = after.sent
  /\ bridgeIn' = ev
  /\ UNCHANGED << routerVars, nameVars >>

\* The window receives a message event.
WebMessage(raw, runtimeOk) ==
  BridgeTurn(handleWebMessage(Bridge, raw, runtimeOk),
             BridgeEvent("web", raw.source, raw.origin, raw.data.type,
                         StringOrEmpty(raw.data.channelId)))

\* The background sends the bridge a message.
RuntimeMessage(msg) ==
  BridgeTurn(handleRuntimeMessage(Bridge, msg),
             BridgeEvent("runtime", "background", "", msg.type,
                         StringOrEmpty(msg.channelId)))

\* The background answers a FETCH_CHANNEL_NAME request: the oldest one, or
\* one sent after it.
ChannelNameResponse(i, res) ==
  /\ i \in DOMAIN nameRequests
  /\ BridgeTurn(onChannelNameResponse(Bridge, i, res),
                BridgeEvent(IF i = 1 THEN "callback" ELSE "callback of a later request",
                            "background", "", "FETCH_CHANNEL_NAME",
                            nameRequests[i].channelId))

\* A message the bridge posted in the last turn reaches the window's own
\* message listener: same window, and the origin it was posted to.
PageEcho(i) ==
  /\ i \in DOMAIN posted
  /\ BridgeTurn(handleWebMessage(Bridge,
                  [ source |-> "window", origin |-> posted[i].targetOrigin,
                    data |-> WebData(posted[i].message.type,
                                     JsString(posted[i].message.channelId),
                                     JsUndefined, JsUndefined) ],
                  TRUE),
                BridgeEvent("echo", "window", posted[i].targetOrigin,
                            posted[i].message.type, posted[i].message.channelId))

\* chrome.runtime.sendMessage may be missing (extension context gone); only
\* the two handlers that send look.
RuntimeAvailableFor(raw) ==
  IF raw.data.type \in {"CMV_FETCH_CHANNEL_NAME_REQUEST", "CMV_FF_REQUEST"}
  THEN BOOLEAN ELSE {TRUE}

BridgeNext ==
  \/ \E raw \in WebEvents : \E runtimeOk \in RuntimeAvailableFor(raw) :
       WebMessage(raw, runtimeOk)
  \/ \E msg \in RuntimeMsgs : RuntimeMessage(msg)
  \/ \E i \in 1 .. MaxNameRequests + 1, res \in NameResults : ChannelNameResponse(i, res)
  \/ \E i \in 1 .. 1 : PageEcho(i)

BridgeSpec == RouterInit /\ [][BridgeNext]_vars

\* ---------------------------------------------------------------------------
\* Claims about the scheduler (specification Spec)
\* ---------------------------------------------------------------------------

RunSent == \E i \in DOMAIN sent : sent[i].type = "CHZZK_REWARD_RUN"

Unsettled == { tk \in ticks : ~tk.settled }

TimedOut(tk) == tk.settled /\ tk.resp = "pending"

IsSuccess(r) == r.lastError = "none" /\ r.ok /\ r.claimed

\* C2: a task request is sent only at a time now >= cooldownUntil, and, once
\* a success response has been processed, only when the cooldown duration
\* has passed since; a tick at now = cooldownUntil may dispatch.
C2_CooldownEnforced ==
  RunSent =>
    /\ rewardCooldownUntil <= now
    /\ lastClaimAt # NULL => now - lastClaimAt >= REWARD_COOLDOWN_MS

C2_Witness ==
  RunSent /\ lastClaimAt # NULL /\ now = rewardCooldownUntil

\* C3: two success responses are processed at least the cooldown duration
\* apart, also when the earlier dispatch has timed out before its response.
C3_ClaimsCooldownApart ==
  [][ \A tk \in ticks, r \in Responses :
        (IsSuccess(r) /\ lastClaimAt # NULL /\ TickResponse(tk, r))
          => now - lastClaimAt >= REWARD_COOLDOWN_MS ]_vars

\* C4: no task request is sent while an earlier dispatch is unsettled: at
\* most one dispatch is unsettled, the flag is set exactly then, and a turn
\* that sends a request leaves its own dispatch as the only unsettled one.
C4_NoOverlappingDispatch ==
  /\ Cardinality(Unsettled) <= 1
  /\ rewardTickInFlight <=> Unsettled # {}
  /\ RunSent => \E tk \in Unsettled : tk.dispatchedAt = now /\ Unsettled = {tk}

C4_Witness ==
  \E tk \in ticks, late \in ticks :
    /\ TimedOut(late)
    /\ ~tk.settled
    /\ rewardTickInFlight

\* C5: the response of a dispatch that has timed out changes
\* nothing.
C5_LateResponseIgnored ==
  [][ \A tk \in ticks, r \in Responses :
        (TimedOut(tk) /\ TickResponse(tk, r))
          => UNCHANGED << rewardCooldownUntil, pendingWrites, stored,
                          rewardParticipants, rewardSchedulerIntervalId,
                          rewardTickInFlight >> ]_vars

\* C6: the flag set by a tick is released exactly once and eventually: each
\* dispatch has released the flag at most once, an unsettled dispatch has not
\* released it and holds the flag with its timeout still armed (so that a
\* release is always pending), and a settled dispatch has released it once.
C6_ReleasedExactlyOnce ==
  /\ \A tk \in ticks :
       /\ tk.releases = (IF tk.settled THEN 1 ELSE 0)
       /\ ~tk.settled => tk.armed /\ rewardTickInFlight
  /\ rewardTickInFlight => \E tk \in ticks : ~tk.settled /\ tk.armed

C6_Witness ==
  \E tk \in ticks : TimedOut(tk) /\ tk.releases = 1 /\ ~rewardTickInFlight

\* C7: when the send call throws, the flag is released before
\* runRewardSchedulerTick returns.
C7_ReleasedOnSendFailure ==
  \A tk \in ticks : tk.resp = "thrown" => tk.settled

\* C8: a timeout releases the flag and leaves cooldownUntil, the persisted
\* cooldown, the registry, the cursor and the timer as they were, and
\* sends nothing.
C8_TimeoutFrame ==
  [][ \A tk \in ticks :
        (~tk.settled /\ TickTimeout(tk))
          => /\ ~rewardTickInFlight'
             /\ sent' = <<>>
             /\ UNCHANGED << rewardCooldownUntil, stored, pendingWrites,
                             rewardParticipants, rewardRoundRobinCursor,
                             rewardSchedulerIntervalId >> ]_vars

C8_Witness ==
  /\ ~rewardTickInFlight
  /\ \E tk \in ticks :
       /\ TimedOut(tk)
       /\ HasKey(rewardParticipants, tk.tabId, tk.frameId)
       /\ rewardSchedulerIntervalId # NULL

\* C15: as long as the persisted cooldown has not been loaded, no task
\* request has been sent: no dispatch exists, the flag is clear and the turn
\* sent nothing, whatever ticks REGISTER, UNREGISTER or the timer triggered.
C15_NoDispatchBeforeLoad ==
  ~rewardCooldownReady =>
    /\ ticks = {}
    /\ ~rewardTickInFlight
    /\ ~RunSent
    /\ rewardCooldownUntil = 0

\* A participant is registered, the timer runs and time has passed, and
\* the load has not completed.
C15_Witness ==
  /\ ~rewardCooldownReady
  /\ rewardParticipants # <<>>
  /\ rewardSchedulerIntervalId # NULL
  /\ advances > 0

\* C16: when the read of the store succeeds, a persisted cooldownUntil in
\* the future is restored unchanged, nothing is written and the tick that
\* follows sends nothing; a persisted time that is not in the future becomes
\* 0 in memory and a write of 0 is issued.
C16_RestartRestoration ==
  [][ \A outcome \in SendOutcomes :
        InitCooldownDone(TRUE, outcome) =>
          IF stored > now
          THEN /\ rewardCooldownUntil' = stored
               /\ pendingWrites' = pendingWrites
               /\ sent' = <<>>
               /\ ticks' = ticks
          ELSE /\ rewardCooldownUntil' = 0
               /\ stored > 0 => pendingWrites' = Append(pendingWrites, 0) ]_vars

\* A future cooldown has been restored while a participant is registered
\* (no dispatch), with the clock having reached a point before it.
C16_Witness ==
  /\ rewardCooldownReady
  /\ stored > now
  /\ rewardCooldownUntil = stored
  /\ rewardParticipants # <<>>
  /\ ticks = {}

\* C17: the interval timer runs exactly when the registry is not empty,
\* after every turn (register, heartbeat, unregister, tab closed, a tick that
\* prunes, a response that evicts).
C17_TimerCoupledToRegistry ==
  rewardSchedulerIntervalId # NULL <=> rewardParticipants # <<>>

\* The registry has been emptied again, after a dispatch, and the timer is
\* stopped.
C17_Witness ==
  /\ rewardParticipants = <<>>
  /\ rewardSchedulerIntervalId = NULL
  /\ ticks # {}
  /\ advances > 0

\* C21: apart from the restore when the persisted value has been read,
\* cooldownUntil changes only in the turn of a response with ok and claimed
\* both true; every other turn (register, heartbeat, unregister, tab closed,
\* interval tick, timeout, error response, response without ok or claimed,
\* completion of a write, passing of time) leaves it as it was.
C21_CooldownMutatedOnlyOnSuccess ==
  [][ rewardCooldownUntil' # rewardCooldownUntil =>
        /\ \/ \E storeOk \in BOOLEAN, outcome \in SendOutcomes :
                InitCooldownDone(storeOk, outcome)
           \/ \E tk \in ticks, r \in Responses :
                /\ r.lastError = "none" /\ r.ok /\ r.claimed
                /\ TickResponse(tk, r)
        /\ \A tk \in ticks, r \in Responses :
             ~(r.lastError = "none" /\ r.ok /\ r.claimed) => ~TickResponse(tk, r)
        /\ \A tk \in ticks : ~TickTimeout(tk) ]_vars

\* Time has passed since a success response was processed, and the tick it
\* answered is settled: the cooldown is still the one the success set.
C21_Witness ==
  /\ lastClaimAt # NULL
  /\ lastClaimAt < now
  /\ rewardCooldownUntil = lastClaimAt + REWARD_COOLDOWN_MS
  /\ rewardParticipants # <<>>
  /\ ~rewardTickInFlight

\* C22: the turn of a success response sets cooldownUntil to now + the
\* cooldown duration and issues a write of that value; and when the last
\* pending write completes, the store holds the cooldownUntil in memory.
C22_CooldownSetAndPersisted ==
  [][ /\ \A tk \in ticks, r \in Responses :
           (r.lastError = "none" /\ r.ok /\ r.claimed /\ TickResponse(tk, r)) =>
             /\ rewardCooldownUntil' = now + REWARD_COOLDOWN_MS
             /\ pendingWrites' = Append(pendingWrites, now + REWARD_COOLDOWN_MS)
      /\ (WriteDone(TRUE) /\ pendingWrites' = <<>>) =>
             stored' = rewardCooldownUntil' ]_vars

\* The write issued by a success response has completed: the store holds the
\* cooldown that is in force.
C22_Witness ==
  /\ lastClaimAt # NULL
  /\ pendingWrites = <<>>
  /\ stored = lastClaimAt + REWARD_COOLDOWN_MS
  /\ stored = rewardCooldownUntil

\* ---------------------------------------------------------------------------
\* Claims about the listener (specification RouterSpec)
\* ---------------------------------------------------------------------------

LatencyCopies == { i \in DOMAIN sent : sent[i].type = "CHZZK_LATENCY_DATA" }

\* C1: a telemetry message that carries __fromRouter is not relayed, and
\* every copy the router relays carries __fromRouter = true (so a copy that
\* comes back, from whatever sender, is not relayed again).
C1_LoopPrevention ==
  /\ lastIn.type = "CHZZK_LATENCY_DATA" /\ lastIn.flagged => sent = <<>>
  /\ \A i \in LatencyCopies : sent[i].fromRouter

C1_Witness ==
  /\ lastIn.type = "CHZZK_LATENCY_DATA"
  /\ lastIn.flagged
  /\ sent = <<>>

\* Every sender the listener can be called with: with or without a tab,
\* with or without a frame id, with any URL.
AnySenders ==
  { [tabId |-> tb, frameId |-> fr, url |-> u] :
      tb \in Tabs \cup {NULL}, fr \in {0, NULL}, u \in Urls }

PresenceMsgs ==
  { m \in RewardMsgs : m.type \in {"CHZZK_REWARD_REGISTER", "CHZZK_REWARD_HEARTBEAT"} }

NotSpace(c) == c # " "

Blank(channelId) == \A i \in DOMAIN channelId : channelId[i] = " "

\* C23: in every state, a REGISTER or HEARTBEAT is answered CHAT_FRAME when
\* it comes from a chat frame, else NO_SENDER when the sender has no tab id
\* or no frame id, else EMPTY_CHANNEL_ID when its channelId is blank; in
\* these cases nothing changes, nothing is sent and no tick is dispatched.
\* Otherwise the answer is ok:true and the registry holds the sender's key
\* with the trimmed channelId and the current time.
C23_PresenceValidation ==
  \A m \in PresenceMsgs, sender \in AnySenders :
    \A outcome \in OutcomesFor(m) :
      LET r == onMessage(State, m, sender, now, outcome)
          Mine(p) == p.tabId = sender.tabId /\ p.frameId = sender.frameId
      IN IF isChatFrame(sender)
         THEN r.reply = Reply(FALSE, "CHAT_FRAME") /\ r.S = State
         ELSE IF sender.tabId = NULL \/ sender.frameId = NULL
         THEN r.reply = Reply(FALSE, "NO_SENDER") /\ r.S = State
         ELSE IF Blank(m.channelId)
         THEN r.reply = Reply(FALSE, "EMPTY_CHANNEL_ID") /\ r.S = State
         ELSE /\ r.reply = Reply(TRUE, "")
              /\ \E i \in DOMAIN r.S.parts :
                   /\ Mine(r.S.parts[i])
                   /\ r.S.parts[i].updatedAt = now
                   /\ r.S.parts[i].channelId = SelectSeq(m.channelId, NotSpace)
              /\ r.S.interval # NULL

\* A HEARTBEAT with a blank channelId from a live frame has just been
\* refused, with participants registered.
C23_Witness ==
  /\ lastIn.type = "CHZZK_REWARD_HEARTBEAT"
  /\ reply = Reply(FALSE, "EMPTY_CHANNEL_ID")
  /\ rewardParticipants # <<>>
  /\ sent = <<>>

\* C24: a HEARTBEAT leaves the set of registered keys and the channelId of
\* every participant as they were.
C24_HeartbeatOnlyRefreshes ==
  [][ \A m \in PresenceMsgs, sender \in Senders :
        (m.type = "CHZZK_REWARD_HEARTBEAT" /\ Message(m, sender, "started")) =>
          /\ KeySeq(rewardParticipants') = KeySeq(rewardParticipants)
          /\ \A i \in DOMAIN rewardParticipants :
               rewardParticipants'[i].channelId = rewardParticipants[i].channelId ]_vars

\* ---------------------------------------------------------------------------
\* Claims about the registry (specification RegistrySpec)
\* ---------------------------------------------------------------------------

Registered == Range(KeySeq(rewardParticipants))

\* C9: while the registered keys stay the same, any N consecutive selections
\* (N the number of participants) are N different participants, so each one
\* exactly once, and the selection N places later is the same participant
\* again.
C9_RoundRobinRotation ==
  LET N == Len(rewardParticipants)
  IN /\ Range(picks) \subseteq Registered
     /\ \A i, j \in DOMAIN picks : i < j /\ j - i < N => picks[i] # picks[j]
     /\ \A i, j \in DOMAIN picks : j = i + N => picks[i] = picks[j]

C9_Witness ==
  /\ Len(rewardParticipants) = Cardinality(Keys)
  /\ Len(picks) = Window(rewardParticipants)

\* The selections that can pass over a registered participant before it is
\* selected: a round of the others, once more for each participant that can
\* leave from in front of it.
WaitBound == Cardinality(Keys) * (Cardinality(Keys) - 1)

\* C10: a participant that stays registered is selected after at most
\* WaitBound selections, whatever the others do in between.
C10_NoStarvation == \A k \in Keys : waited[k] <= WaitBound

C10_Witness ==
  \E k \in Registered : waited[k] >= Cardinality(Keys)

\* C11: getRewardNextTarget(now) returns no participant older than the
\* staleness window and leaves none in the registry, and it keeps every
\* participant whose age is at most the window, in the same order.
C11_StaleEviction ==
  [][ Select =>
        LET Old(p) == now - p.updatedAt > REWARD_HEARTBEAT_STALE_MS
            Young(p) == now - p.updatedAt <= REWARD_HEARTBEAT_STALE_MS
            target == getRewardNextTarget(State, now)
        IN /\ \A i \in DOMAIN rewardParticipants' : ~Old(rewardParticipants'[i])
           /\ rewardParticipants' = SelectSeq(rewardParticipants, Young)
           /\ target.found => ~Old(target.target)
           /\ target.found <=> (\E i \in DOMAIN rewardParticipants :
                                  Young(rewardParticipants[i])) ]_vars

\* A participant whose age is exactly the window has just been selected.
C11_Witness ==
  /\ picks # <<>>
  /\ \E i \in DOMAIN rewardParticipants :
       /\ KeyOf(rewardParticipants[i]) = picks[Len(picks)]
       /\ now - rewardParticipants[i].updatedAt = REWARD_HEARTBEAT_STALE_MS

UnregisterMsg ==
  [ type |-> "CHZZK_REWARD_UNREGISTER", channelId |-> <<>>,
    fromRouter |-> FALSE, dest |-> "router" ]

\* C12: in every state, for every frame, an UNREGISTER that directly follows
\* an UNREGISTER of the same frame is acknowledged with ok:true and changes
\* nothing: registry, timer, cursor, flag and dispatches stay as the first
\* left them, and nothing is sent.
C12_IdempotentUnregister ==
  \A sender \in Senders, o1, o2 \in SendOutcomes :
    sender.tabId # NULL /\ sender.frameId # NULL =>
      LET first == onMessage(State, UnregisterMsg, sender, now, o1)
          left == [first.S EXCEPT !.sent = <<>>]
          second == onMessage(left, UnregisterMsg, sender, now, o2)
      IN /\ first.reply = Reply(TRUE, "")
         /\ second.reply = Reply(TRUE, "")
         /\ second.S = left
         /\ ~HasKey(left.parts, sender.tabId, sender.frameId)

\* An UNREGISTER has just been acknowledged and has stopped the timer, and
\* another participant had been registered before.
C12_Witness ==
  /\ lastIn.type = "CHZZK_REWARD_UNREGISTER"
  /\ reply = Reply(TRUE, "")
  /\ rewardParticipants = <<>>
  /\ rewardSchedulerIntervalId = NULL
  /\ ticks # {}

\* ---------------------------------------------------------------------------
\* Claims about the bridge (specification BridgeSpec)
\* ---------------------------------------------------------------------------

LatencyUpdates == { i \in DOMAIN posted : posted[i].message.type = "CMV_LATENCY_UPDATE" }

TelemetryHandled == bridgeIn.kind = "runtime" /\ bridgeIn.type = "CHZZK_LATENCY_DATA"

\* C13: a latency-update is posted only in the turn that handles a telemetry
\* message of a subscribed channel, and then exactly one, with that
\* channelId; telemetry of a channel that is not subscribed posts nothing,
\* and a channel the page has just unsubscribed is not subscribed.
C13_SubscriptionFiltering ==
  /\ LatencyUpdates # {} =>
       /\ TelemetryHandled
       /\ bridgeIn.channelId \in subscribedLatency
  /\ TelemetryHandled /\ bridgeIn.channelId \in subscribedLatency =>
       /\ Len(posted) = 1
       /\ posted[1].message.type = "CMV_LATENCY_UPDATE"
       /\ posted[1].message.channelId = bridgeIn.channelId
  /\ TelemetryHandled /\ bridgeIn.channelId \notin subscribedLatency => posted = <<>>
  /\ ( /\ bridgeIn.kind = "web"
       /\ bridgeIn.source = "window"
       /\ bridgeIn.origin = pageOrigin
       /\ bridgeIn.type = "CMV_UNSUBSCRIBE_LATENCY" )
     => bridgeIn.channelId \notin subscribedLatency

\* Telemetry of one of two channels is forwarded while the other is not
\* subscribed.
C13_Witness ==
  /\ TelemetryHandled
  /\ Len(posted) = 1
  /\ subscribedLatency = {bridgeIn.channelId}

\* C14: a page message from another window or with another origin changes
\* nothing and sends nothing, whatever its type and payload.
C14_OriginRejection ==
  [][ ( /\ bridgeIn'.kind = "web"
        /\ bridgeIn'.source # "window" \/ bridgeIn'.origin # pageOrigin )
      => /\ UNCHANGED << subscribedLatency, nameRequests >>
         /\ posted' = <<>>
         /\ runtimeSent' = <<>> ]_vars

\* A well-formed subscribe from the bridge's own window with a foreign
\* origin has been handled, and the channel is not subscribed.
C14_Witness ==
  /\ bridgeIn.kind = "web"
  /\ bridgeIn.source = "window"
  /\ bridgeIn.origin # pageOrigin
  /\ bridgeIn.type = "CMV_SUBSCRIBE_LATENCY"
  /\ bridgeIn.channelId = "a"
  /\ "a" \notin subscribedLatency
  /\ "b" \in subscribedLatency

\* C18: when the tab-closed notification of tab T has been handled, no
\* participant of T is left, the participants of the other tabs are as they
\* were and in the same order, the timer is stopped if none is left, and
\* cursor, cooldown and flag are untouched.
C18_TabClosedCleanup ==
  [][ \A T \in Tabs :
        CloseTab(T) =>
          LET Other(p) == p.tabId # T
          IN /\ rewardParticipants' = SelectSeq(rewardParticipants, Other)
             /\ rewardParticipants' = <<>> => rewardSchedulerIntervalId' = NULL
             /\ rewardParticipants' # <<>> =>
                  rewardSchedulerIntervalId' = rewardSchedulerIntervalId
             /\ UNCHANGED << rewardRoundRobinCursor, rewardCooldownUntil,
                             rewardTickInFlight, ticks >> ]_vars

\* A tab has been closed, its participants are gone and another tab's
\* participant is still registered, with the timer running.
C18_Witness ==
  /\ lastIn.type = "tabs.onRemoved"
  /\ rewardParticipants # <<>>
  /\ \A i \in DOMAIN rewardParticipants : rewardParticipants[i].tabId = 2
  /\ picks = <<>>
  /\ rewardRoundRobinCursor = 2
  /\ rewardSchedulerIntervalId # NULL

\* ---------------------------------------------------------------------------
\* Claims about forwards, injections and unknown messages (specification
\* ForwardSpec)

FFApplies(msgs) == { i \in DOMAIN msgs : msgs[i].type = "CHZZK_FF_APPLY" }

\* The routing of fast-forward requests: whom the command goes to, and the
\* answers in the error cases.
FFRoutedAsRequested ==
  \A m \in FFMsgs, sender \in AnySenders, outcome \in SendOutcomes :
    LET r == onMessage(State, m, sender, now, outcome)
        out == r.S.sent
        dest == IF m.type = "CMV_FF_REQUEST" THEN sender.tabId ELSE m.liveTabId.v
        refusal ==
          IF m.type = "CMV_FF_REQUEST"
          THEN IF Blank(m.channelId) THEN "EMPTY_CHANNEL_ID"
               ELSE IF sender.tabId = NULL THEN "NO_TAB_ID" ELSE ""
          ELSE IF m.liveTabId.t # "number" THEN "NO_LIVE_TAB_ID" ELSE ""
    IN IF refusal # ""
       THEN r.reply = Reply(FALSE, refusal) /\ r.S = State
       ELSE /\ r.reply = Reply(TRUE, "")
            /\ [r.S EXCEPT !.sent = <<>>] = State
            /\ Len(out) = (IF outcome = "thrown" THEN 0 ELSE 1)
            /\ \A i \in DOMAIN out :
                 out[i].type = "CHZZK_FF_APPLY" /\ out[i].dest = dest

\* C25: a fast-forward command is sent only when validation passes, to the
\* sender's own tab (same-tab request) or the tab named (cross-tab request);
\* the error cases are answered EMPTY_CHANNEL_ID, NO_TAB_ID, NO_LIVE_TAB_ID
\* and forward nothing; the margin of the forwarded command is the supplied
\* one when that is a finite number and the default 0.6 otherwise.
C25_FastForwardRouting ==
  [][ \A m \in FFMsgs, sender \in ForwardSenders, outcome \in SendOutcomes :
        Message(m, sender, outcome) =>
          /\ FFRoutedAsRequested
          /\ \A i \in FFApplies(sent') :
               sent'[i].marginSec =
                 (IF m.marginSec.t = "number" /\ isFinite(m.marginSec.v)
                  THEN m.marginSec.v ELSE "0.6") ]_vars

\* The frame kind as the URL shows it: a URL that parses and whose path ends
\* in the segment chat, with or without a trailing slash.
ChatUrl(u) ==
  /\ u.kind = "ok"
  /\ \E n \in DOMAIN u.path :
       /\ u.path[n] = "chat"
       /\ n = Len(u.path) \/ (n = Len(u.path) - 1 /\ u.path[n + 1] = "")

\* C26: the chat resource is injected only on a CHZZK_CHAT_INJECT of a chat
\* frame and the main resource only on a CHZZK_LATENCY_INJECT of a frame that
\* is not a chat frame, into the tab and frame of the sender; a request of
\* the wrong frame kind is answered NOT_CHAT_FRAME resp. CHAT_FRAME and
\* injects nothing; a sender whose URL is absent or does not parse counts as
\* not chat.
C26_InjectionExclusive ==
  \A m \in InjectMsgs, sender \in AnySenders, outcome \in ScriptingOutcomes :
    LET r == onMessage(State, m, sender, now, outcome)
        out == r.S.sent
        chat == ChatUrl(sender.url)
        wanted == IF m.type = "CHZZK_CHAT_INJECT" THEN chat ELSE ~chat
        file == IF m.type = "CHZZK_CHAT_INJECT"
                THEN "background/injectedChatWsHook.js"
                ELSE "background/injectedMain.js"
    IN /\ [r.S EXCEPT !.sent = <<>>] = State
       /\ ~wanted =>
            /\ out = <<>>
            /\ r.reply = Reply(FALSE, IF chat THEN "CHAT_FRAME" ELSE "NOT_CHAT_FRAME")
       /\ \A i \in DOMAIN out :
            /\ out[i].type = "executeScript"
            /\ out[i].file = file
            /\ out[i].tabId = sender.tabId /\ out[i].frameId = sender.frameId
            /\ sender.tabId # NULL /\ sender.frameId # NULL
       /\ (wanted /\ sender.tabId # NULL /\ sender.frameId # NULL /\ outcome # "absent")
            => Len(out) = 1
       /\ sender.url.kind # "ok" => ~isChatFrame(sender)
       /\ isChatFrame(sender) = chat

\* The chat resource has just been injected into the chat frame of tab 1.
C26_Witness ==
  /\ lastIn.type = "CHZZK_CHAT_INJECT"
  /\ sent = <<ExecuteScript(1, 1, "background/injectedChatWsHook.js")>>
  /\ reply = Reply(TRUE, "")

\* C27: a message of an unknown type, and a message that is not an object,
\* changes nothing (registry, cursor, cooldown, flag, timer, dispatches,
\* writes), sends nothing and is not answered; so whatever is handled
\* afterwards starts from the state it would have started from without it.
C27_UnknownDropped ==
  \A m \in UnknownMsgs, sender \in AnySenders :
    onMessage(State, m, sender, now, "started") = [S |-> State, reply |-> NoReply]

\* A message of an unknown type has just been dropped while a dispatch is in
\* flight.
C27_Witness ==
  /\ lastIn.type = "FETCH_CHANNEL_NAME"
  /\ reply = NoReply
  /\ sent = <<>>
  /\ rewardTickInFlight
  /\ rewardParticipants # <<>>

C19_NeverTargetsClosedTab ==
  \A i \in DOMAIN sent :
    sent[i].type = "CHZZK_REWARD_RUN" => sent[i].tabId \notin closedTabs

\* C20: a response reporting that the receiving end or the tab does not exist
\* removes exactly the participant with the dispatched tabId and frameId and
\* leaves the cooldown alone; any other error, and any response that came
\* without an error (with or without ok and claimed), removes nobody.
C20_EvictionOnlyOnGone ==
  [][ \A tk \in ticks, r \in Responses :
        ResponseArrives(tk, r) =>
          LET Other(p) == ~(p.tabId = tk.tabId /\ p.frameId = tk.frameId)
          IN IF r.lastError \in {"Receiving end does not exist", "No tab with id"}
             THEN /\ rewardParticipants' = SelectSeq(rewardParticipants, Other)
                  /\ rewardCooldownUntil' = rewardCooldownUntil
                  /\ pendingWrites' = pendingWrites
             ELSE rewardParticipants' = rewardParticipants ]_vars

\* The response said the tab is gone: its participant has been removed, the
\* other tab's participant is still registered, nothing was claimed.
C20_Witness ==
  /\ lastIn.type = "No tab with id"
  /\ Len(rewardParticipants) = 1
  /\ rewardSchedulerIntervalId # NULL
  /\ rewardCooldownUntil = 0
  /\ ~rewardTickInFlight

\* A fetch-name request the bridge accepts: from its own window, with the
\* page's origin, with a channelId that is a non-empty string.
FetchNameRequests ==
  { raw \in WebEvents :
      /\ raw.source = "window" /\ raw.origin = pageOrigin
      /\ raw.data.isObject
      /\ raw.data.type = "CMV_FETCH_CHANNEL_NAME_REQUEST"
      /\ raw.data.channelId.t = "string" /\ raw.data.channelId.v # "" }

\* The request id of a request: the one the page supplied, else a generated one.
RequestIdOf(raw) ==
  IF raw.data.requestId.t = "string" THEN raw.data.requestId.v ELSE "req-generated"

FetchNameResponses(msgs) ==
  { i \in DOMAIN msgs : msgs[i].message.type = "CMV_FETCH_CHANNEL_NAME_RESPONSE" }

\* C29, as stated: every accepted fetch-name request leaves one callback
\* pending, whose run posts the response.
C29_EveryRequestAnswered ==
  [][ \A raw \in FetchNameRequests, runtimeOk \in BOOLEAN :
        WebMessage(raw, runtimeOk) =>
          nameRequests' = Append(nameRequests, [channelId |-> raw.data.channelId.v,
                                                requestId |-> RequestIdOf(raw)]) ]_vars

\* C29, amended: while chrome.runtime.sendMessage is available, an accepted
\* fetch-name request leaves one callback pending with the request's
\* channelId and request id (supplied or generated) and posts nothing yet;
\* when the runtime is not available the request is dropped without a
\* response.  The run of a pending callback, in whatever order, posts exactly
\* one response, with the channelId and request id of its own request, and
\* leaves the other pending callbacks as they were; no other turn posts a
\* fetch-name response.
C29_FetchNameCorrelation ==
  [][ /\ \A raw \in FetchNameRequests :
           /\ WebMessage(raw, TRUE) =>
                /\ nameRequests' = Append(nameRequests,
                                          [channelId |-> raw.data.channelId.v,
                                           requestId |-> RequestIdOf(raw)])
                /\ posted' = <<>>
           /\ WebMessage(raw, FALSE) =>
                nameRequests' = nameRequests /\ posted' = <<>>
      /\ \A i \in DOMAIN nameRequests, res \in NameResults :
           ChannelNameResponse(i, res) =>
             /\ Len(posted') = 1
             /\ posted'[1].message.type = "CMV_FETCH_CHANNEL_NAME_RESPONSE"
             /\ posted'[1].message.channelId = nameRequests[i].channelId
             /\ posted'[1].message.requestId = nameRequests[i].requestId
             /\ Len(nameRequests') = Len(nameRequests) - 1
             /\ \A j \in DOMAIN nameRequests' :
                  nameRequests'[j] = nameRequests[IF j < i THEN j ELSE j + 1]
      /\ FetchNameResponses(posted') # {} =>
           \E i \in DOMAIN nameRequests, res \in NameResults : ChannelNameResponse(i, res)
    ]_vars

\* Two requests were outstanding and the later one has been answered first:
\* the response carries its request id, the earlier request is still pending
\* with another id.
C29_Witness ==
  /\ bridgeIn.kind = "callback of a later request"
  /\ Len(posted) = 1
  /\ Len(nameRequests) = 1
  /\ posted[1].message.type = "CMV_FETCH_CHANNEL_NAME_RESPONSE"
  /\ posted[1].message.requestId # nameRequests[1].requestId

\* ---------------------------------------------------------------------------
\* Claims about the name resolver (specification NameSpec)

\* The identifier a request asks for, whatever its letter case and padding.
Identifier(id) ==
  IF id.t # "string" THEN <<>>
  ELSE LET letters == SelectSeq(id.v, NotSpace)
       IN [ i \in DOMAIN letters |->
              IF letters[i] \in {"a", "A"} THEN "a"
              ELSE IF letters[i] \in {"b", "B"} THEN "b" ELSE letters[i] ]

\* A lookup that succeeded: a response with status 200 whose payload has
\* code 200.
LookupSucceeded(res) == res.kind = "json" /\ res.status = "200" /\ res.code = "200"

\* C30: a request for an identifier that is in the cache, in any letter
\* case, is answered ok:true with the cached name, and fetch is not called;
\* a request for one that is not in the cache calls fetch.  A fetch that
\* fails (rejected, status not ok, body or payload not as expected) answers
\* ok:false with an error code and leaves the cache as it was; a fetch that
\* succeeds answers ok:true and caches the name under the identifier.  The
\* cache changes in no other turn.
C30_NameCache ==
  [][ /\ \A msg \in NameMsgs :
           (isFetchChannelRequest(msg) /\ NameRequest(msg)) =>
             LET id == Identifier(msg.id)
             IN /\ channelCache' = channelCache
                /\ id \in DOMAIN channelCache =>
                     /\ nameOut' = NameReply(TRUE, channelCache[id], "")
                     /\ nameNet' = <<>>
                     /\ nameFetches' = nameFetches
                /\ (id # <<>> /\ id \notin DOMAIN channelCache) =>
                     /\ nameNet' = <<id>>
                     /\ nameFetches' = Append(nameFetches, id)
      /\ \A i \in DOMAIN nameFetches, res \in FetchResults :
           FetchSettled(i, res) =>
             IF LookupSucceeded(res)
             THEN /\ nameOut'.ok
                  /\ DOMAIN channelCache' = DOMAIN channelCache \cup {nameFetches[i]}
                  /\ channelCache'[nameFetches[i]] = nameOut'.name
                  /\ \A x \in DOMAIN channelCache \ {nameFetches[i]} :
                       channelCache'[x] = channelCache[x]
             ELSE /\ ~nameOut'.ok
                  /\ nameOut'.error \in {"FETCH_ERROR", "HTTP_404", "CODE_500",
                                         "CODE_UNKNOWN"}
                  /\ channelCache' = channelCache
      /\ channelCache' # channelCache =>
           \E i \in DOMAIN nameFetches, res \in FetchResults :
             LookupSucceeded(res) /\ FetchSettled(i, res) ]_vars

\* A request for A has just been answered from the cache, with the name a
\* lookup of a had found, without a call of fetch.
C30_Witness ==
  /\ nameIn = NameEvent("request", <<"A">>)
  /\ nameOut = NameReply(TRUE, <<"N">>, "")
  /\ nameNet = <<>>
  /\ DOMAIN channelCache = {<<"a">>}

\* ---------------------------------------------------------------------------
\* Further claims about the scheduler and the store (specification Spec)
\* ---------------------------------------------------------------------------

\* A participant whose heartbeat is fresh at the current time.
FreshNow == \E i \in DOMAIN rewardParticipants : ~IsStale(rewardParticipants[i], now)

\* C31: a failure of the store is absorbed.  When the read fails, loading
\* still completes: the scheduler is ready, cooldownUntil is 0, nothing is
\* written, and the tick of that turn dispatches to a fresh participant as
\* with no cooldown known.  When a write fails, the store keeps what it held
\* and nothing else changes.  Once ready, the scheduler stays ready.
C31_StorageFailureAbsorbed ==
  [][ /\ \A outcome \in SendOutcomes :
           InitCooldownDone(FALSE, outcome) =>
             /\ rewardCooldownReady'
             /\ rewardCooldownUntil' = 0
             /\ pendingWrites' = pendingWrites
             /\ stored' = stored
             /\ (FreshNow /\ outcome = "started") => RunSent'
      /\ WriteDone(FALSE) =>
           /\ stored' = stored
           /\ pendingWrites' = Tail(pendingWrites)
           /\ UNCHANGED << rewardParticipants, rewardRoundRobinCursor,
                           rewardCooldownUntil, rewardTickInFlight,
                           rewardCooldownReady, rewardSchedulerIntervalId, ticks >>
      /\ rewardCooldownReady => rewardCooldownReady' ]_vars

\* The store holds a cooldown that has not expired, the read of it failed,
\* and the turn that completed loading has dispatched.
C31_Witness ==
  /\ stored > now
  /\ rewardCooldownReady
  /\ rewardCooldownUntil = 0
  /\ lastClaimAt = NULL
  /\ RunSent

\* ---------------------------------------------------------------------------
\* Further claims about the bridge (specification BridgeSpec)
\* ---------------------------------------------------------------------------

SubscriptionTypes == {"CMV_SUBSCRIBE_LATENCY", "CMV_UNSUBSCRIBE_LATENCY"}

\* A message event that changes the subscription set the way the protocol
\* says: from the bridge's own window, with the page's origin, a subscribe or
\* unsubscribe whose channelId is a non-empty string.
SubscriptionChange(raw) ==
  /\ raw.source = "window"
  /\ raw.origin = pageOrigin
  /\ raw.data.isObject
  /\ raw.data.type \in SubscriptionTypes
  /\ raw.data.channelId.t = "string"
  /\ raw.data.channelId.v # ""
  /\ subscribedLatency' =
       IF raw.data.type = "CMV_SUBSCRIBE_LATENCY"
       THEN subscribedLatency \cup {raw.data.channelId.v}
       ELSE subscribedLatency \ {raw.data.channelId.v}

\* C32: the subscription set is empty at start; it changes only in the turn
\* of a same-window, same-origin subscribe or unsubscribe with a non-empty
\* string channelId, which adds or removes that channelId; a subscribe or
\* unsubscribe sends nothing to the background, posts nothing and leaves the
\* pending callbacks alone; runtime messages, callbacks, fetch-name and
\* fast-forward requests leave the set as it was.  (bridgeIn' is the event
\* the turn handled.)
C32_SubscriptionSetFrame ==
  /\ subscribedLatency = {}
  /\ [][ /\ subscribedLatency' # subscribedLatency =>
              \E raw \in WebEvents : SubscriptionChange(raw) /\ WebMessage(raw, TRUE)
         /\ (bridgeIn'.kind = "web" /\ bridgeIn'.type \in SubscriptionTypes) =>
              /\ runtimeSent' = <<>>
              /\ posted' = <<>>
              /\ nameRequests' = nameRequests
         /\ (bridgeIn'.kind = "web"
             /\ bridgeIn'.type \in {"CMV_FETCH_CHANNEL_NAME_REQUEST", "CMV_FF_REQUEST"}) =>
              subscribedLatency' = subscribedLatency
         /\ bridgeIn'.kind \in {"runtime", "callback", "callback of a later request"} =>
              subscribedLatency' = subscribedLatency
       ]_vars

\* The page has subscribed to a and b and then unsubscribed from a; the
\* bridge has sent nothing to the background.
C32_Witness ==
  /\ bridgeIn.kind = "web"
  /\ bridgeIn.origin = pageOrigin
  /\ bridgeIn.type = "CMV_UNSUBSCRIBE_LATENCY"
  /\ bridgeIn.channelId = "a"
  /\ subscribedLatency = {"b"}
  /\ runtimeSent = <<>>

PageBoundTypes == {"CMV_LATENCY_UPDATE", "CMV_FETCH_CHANNEL_NAME_RESPONSE"}

\* C33: every message the bridge posts to the page, a latency update or a
\* fetch-name response, is posted with the origin captured at bridge start
\* as target origin, never with the wildcard or another origin.
C33_ExplicitTargetOrigin ==
  \A i \in DOMAIN posted :
    /\ posted[i].message.type \in PageBoundTypes
    /\ posted[i].targetOrigin = pageOrigin
    /\ posted[i].targetOrigin # "*"

\* A fetch-name response has just been posted to the page.
C33_Witness ==
  /\ bridgeIn.kind = "callback"
  /\ Len(posted) = 1
  /\ posted[1].message.type = "CMV_FETCH_CHANNEL_NAME_RESPONSE"
  /\ posted[1].targetOrigin = "https://multiview.example"

\* ---------------------------------------------------------------------------
\* Claims about the ticks of the scheduler (specification TickSpec)
\* ---------------------------------------------------------------------------

\* The conditions on which a tick returns before selection.
TickSkips == rewardTickInFlight \/ ~rewardCooldownReady \/ now < rewardCooldownUntil

StaleNow == \E i \in DOMAIN rewardParticipants : IsStale(rewardParticipants[i], now)

\* A participant that was registered is not registered after the turn.
Dropped(k) ==
  /\ HasKey(rewardParticipants, k[1], k[2])
  /\ ~HasKey(rewardParticipants', k[1], k[2])

\* C34: a tick of the interval timer that returns because a dispatch is in
\* flight, the cooldown is not loaded or now < cooldownUntil changes nothing:
\* registry (stale participants stay), cursor, timer, cooldownUntil, flag,
\* and nothing is sent.  The tick inside REGISTER and UNREGISTER that returns
\* so leaves the registry as the upsert or the removal made it.  The cursor
\* moves, and a participant is dropped by an interval tick or a REGISTER,
\* only in a turn whose tick got past the three conditions.
C34_SkippedTickNoEffect ==
  [][ /\ \A outcome \in SendOutcomes :
           (TickSkips /\ IntervalFires(outcome)) =>
             /\ UNCHANGED << rewardParticipants, rewardRoundRobinCursor,
                             rewardSchedulerIntervalId, rewardCooldownUntil,
                             rewardTickInFlight, rewardCooldownReady, ticks >>
             /\ sent' = <<>>
      /\ \A tabId \in Tabs, outcome \in SendOutcomes :
           /\ (TickSkips /\ lastIn'.type = "CHZZK_REWARD_REGISTER"
               /\ Message(PresenceMsg("CHZZK_REWARD_REGISTER", tabId),
                          LiveSender(tabId), outcome)) =>
                /\ KeySeq(rewardParticipants') =
                     KeySeq(MapSet(rewardParticipants,
                                   [tabId |-> tabId, frameId |-> 0]))
                /\ rewardRoundRobinCursor' = rewardRoundRobinCursor
           /\ (TickSkips /\ lastIn'.type = "CHZZK_REWARD_UNREGISTER"
               /\ Message(PresenceMsg("CHZZK_REWARD_UNREGISTER", tabId),
                          LiveSender(tabId), outcome)) =>
                /\ rewardParticipants' = MapDelete(rewardParticipants, tabId, 0)
                /\ rewardRoundRobinCursor' = rewardRoundRobinCursor
      /\ rewardRoundRobinCursor' # rewardRoundRobinCursor =>
           ~rewardTickInFlight /\ rewardCooldownReady' /\ rewardCooldownUntil' <= now
      /\ (lastIn'.type \in {"interval", "CHZZK_REWARD_REGISTER"}
          /\ \E k \in Keys : Dropped(k)) =>
           ~rewardTickInFlight /\ rewardCooldownReady' /\ rewardCooldownUntil' <= now
    ]_vars

\* The interval timer has fired while a dispatch was in flight and a
\* participant was stale: the participant is still registered.
C34_Witness ==
  /\ lastIn.type = "interval"
  /\ rewardTickInFlight
  /\ StaleNow
  /\ sent = <<>>

\* A tick that runs now gets past its three conditions.
TickOpen == ~rewardTickInFlight /\ rewardCooldownReady /\ rewardCooldownUntil <= now

\* The task request of the turn goes to a participant registered after the
\* turn, and is the only message of the turn.
DispatchedToMember ==
  /\ Len(sent') = 1
  /\ sent'[1].type = "CHZZK_REWARD_RUN"
  /\ HasKey(rewardParticipants', sent'[1].tabId, sent'[1].frameId)
  /\ rewardTickInFlight'

\* C35: a valid REGISTER runs one tick in its turn, after the upsert: when
\* the cooldown is loaded and expired and nothing is in flight, the turn
\* dispatches (the registrant is a candidate) and acknowledges.  An
\* UNREGISTER runs one tick after the removal: under the same conditions it
\* dispatches when a fresh participant is left, never to the one removed.
\* A HEARTBEAT runs none: nothing is sent, flag, cursor and closures stay.
C35_TickTriggers ==
  [][ \A tabId \in Tabs, outcome \in SendOutcomes :
        /\ (lastIn'.type = "CHZZK_REWARD_REGISTER"
            /\ Message(PresenceMsg("CHZZK_REWARD_REGISTER", tabId),
                       LiveSender(tabId), outcome)) =>
             /\ reply' = Reply(TRUE, "")
             /\ HasKey(rewardParticipants', tabId, 0)
             /\ (TickOpen /\ outcome = "started") => DispatchedToMember
             /\ ~TickOpen => sent' = <<>>
        /\ (lastIn'.type = "CHZZK_REWARD_UNREGISTER"
            /\ Message(PresenceMsg("CHZZK_REWARD_UNREGISTER", tabId),
                       LiveSender(tabId), outcome)) =>
             /\ reply' = Reply(TRUE, "")
             /\ ~HasKey(rewardParticipants', tabId, 0)
             /\ (TickOpen /\ outcome = "started"
                 /\ \E i \in DOMAIN rewardParticipants :
                      /\ ~SameKey(rewardParticipants[i], tabId, 0)
                      /\ ~IsStale(rewardParticipants[i], now)) => DispatchedToMember
             /\ ~TickOpen => sent' = <<>>
        /\ (lastIn'.type = "CHZZK_REWARD_HEARTBEAT"
            /\ Message(PresenceMsg("CHZZK_REWARD_HEARTBEAT", tabId),
                       LiveSender(tabId), outcome)) =>
             /\ reply' = Reply(TRUE, "")
             /\ sent' = <<>>
             /\ UNCHANGED << rewardTickInFlight, rewardRoundRobinCursor, ticks >>
    ]_vars

\* A REGISTER has been acknowledged and its turn has dispatched, at the start
\* time: no interval of the timer has passed.
C35_Witness ==
  /\ lastIn.type = "CHZZK_REWARD_REGISTER"
  /\ reply = Reply(TRUE, "")
  /\ RunSent
  /\ rewardTickInFlight
  /\ now = StartTime

\* ---------------------------------------------------------------------------
\* Claims about re-registration (specification RotationSpec)
\* ---------------------------------------------------------------------------

\* The keys of a that are also in b, in the order of a.
Common(a, b) == LET In(k) == k \in Range(b) IN SelectSeq(a, In)

\* The participants registered before and after the turn are in the same
\* relative order.
RelativeOrderKept ==
  Common(KeySeq(rewardParticipants), KeySeq(rewardParticipants'))
    = Common(KeySeq(rewardParticipants'), KeySeq(rewardParticipants))

ReRegistrations == {"registered again", "registered again with another channelId"}

\* C36, as stated: a REGISTER or HEARTBEAT for a key that is registered
\* leaves the order of the participants and the cursor unchanged.
C36_ReRegistrationKeepsCursor ==
  [][ lastIn'.type \in ReRegistrations =>
        /\ KeySeq(rewardParticipants') = KeySeq(rewardParticipants)
        /\ rewardRoundRobinCursor' = rewardRoundRobinCursor ]_vars

\* C36, amended: a REGISTER or HEARTBEAT for a key that is registered
\* overwrites the entry in place: the order of the participants is unchanged
\* and the entry holds the channelId of the message, also when that differs
\* from the one registered.  A HEARTBEAT leaves the cursor unchanged, and so
\* does a REGISTER whose tick does not select; a REGISTER whose tick selects
\* advances the cursor by one position, as every selection does.  No turn
\* reorders participants; one that was not registered is appended at the
\* end.
C36_ReRegistrationInPlace ==
  [][ /\ RelativeOrderKept
      /\ lastIn'.type \in ReRegistrations =>
           /\ KeySeq(rewardParticipants') = KeySeq(rewardParticipants)
           /\ sent' = <<>> => rewardRoundRobinCursor' = rewardRoundRobinCursor
           /\ RunSent' =>
                rewardRoundRobinCursor' =
                  ((IF rewardRoundRobinCursor >= Len(rewardParticipants)
                    THEN 0 ELSE rewardRoundRobinCursor) + 1) % Len(rewardParticipants)
      /\ \A k \in Keys, c \in Channels :
           /\ (lastIn'.type \in ReRegistrations
               /\ Announce("CHZZK_REWARD_HEARTBEAT", k, c, "started")) =>
                /\ rewardRoundRobinCursor' = rewardRoundRobinCursor
                /\ RegisteredChannel(rewardParticipants', k) = c
           /\ (lastIn'.type \in ReRegistrations
               /\ Announce("CHZZK_REWARD_REGISTER", k, c, "started")) =>
                RegisteredChannel(rewardParticipants', k) = c
           /\ (lastIn'.type = "new registration"
               /\ \E type \in {"CHZZK_REWARD_REGISTER", "CHZZK_REWARD_HEARTBEAT"} :
                    Announce(type, k, c, "started")) =>
                KeySeq(rewardParticipants') = Append(KeySeq(rewardParticipants), k)
    ]_vars

\* Three frames are registered and the one registered first has just
\* registered again with another channel: it is still the first, and the
\* tick of that turn has dispatched.
C36_Witness ==
  /\ lastIn.type = "registered again with another channelId"
  /\ KeySeq(rewardParticipants) = << <<1, 0>>, <<2, 0>>, <<1, 1>> >>
  /\ rewardParticipants[1].channelId = <<"b">>
  /\ rewardParticipants[2].channelId = <<"a">>
  /\ rewardParticipants[3].channelId = <<"a">>
  /\ RunSent

\* ---------------------------------------------------------------------------
\* Further claims about the ticks of the scheduler (specification TickSpec)
\* ---------------------------------------------------------------------------

\* C37: the response callback of a dispatch that its timeout has settled
\* leaves the in-flight flag and the unsettled dispatch, if there is one, as
\* they are, and dispatches nothing; at most one dispatch is unsettled, the
\* flag is set while one is, and no turn dispatches while one is.
C37_SettlementPrivateToTick ==
  [][ /\ lastIn'.type = "late response" =>
           /\ rewardTickInFlight' = rewardTickInFlight
           /\ Unsettled' = Unsettled
           /\ ~RunSent'
      /\ Cardinality(Unsettled') <= 1
      /\ Unsettled' # {} => rewardTickInFlight'
      /\ Unsettled # {} => ~RunSent' ]_vars

\* The response of a dispatch that had timed out has just been handled while
\* a later dispatch is unsettled: the flag is still set.
C37_Witness ==
  /\ lastIn.type = "late response"
  /\ Unsettled # {}
  /\ rewardTickInFlight

\* ---------------------------------------------------------------------------
\* Claims about progress (specification LiveSpec)
\* ---------------------------------------------------------------------------

\* The cooldown is loaded and has passed, and the participant that stays is
\* registered; the clock of the model can still move.
DispatchDue ==
  /\ rewardCooldownReady
  /\ rewardCooldownUntil <= now
  /\ HasKey(rewardParticipants, 1, 0)
  /\ advances < MaxAdvances

C39_NoFeedbackLoop ==
  [][ \A i \in DOMAIN posted :
        (posted[i].message.type \in PageBoundTypes /\ PageEcho(i)) =>
          /\ posted[i].targetOrigin = pageOrigin
          /\ subscribedLatency' = subscribedLatency
          /\ nameRequests' = nameRequests
          /\ runtimeSent' = <<>>
          /\ posted' = <<>> ]_vars

\* The listener has received the fetch-name response the bridge posted, for
\* a channel the page is subscribed to, and has sent and posted nothing.
C39_Witness ==
  /\ bridgeIn.kind = "echo"
  /\ bridgeIn.source = "window"
  /\ bridgeIn.origin = pageOrigin
  /\ bridgeIn.type = "CMV_FETCH_CHANNEL_NAME_RESPONSE"
  /\ bridgeIn.channelId \in subscribedLatency
  /\ runtimeSent = <<>>
  /\ posted = <<>>

\* ---------------------------------------------------------------------------
\* Further claims about the registry (RegistrySpec)
\* ---------------------------------------------------------------------------

\* C40: whatever upserts, removals, prunes and tab closures came before,
\* getRewardNextTarget returns null exactly when the pruned registry is empty;
\* otherwise it returns a participant that is in the registry before and after
\* the call, the one at the cursor, or the first one when the cursor pointed
\* beyond the end of the pruned list, and afterwards 0 <= cursor < number of
\* participants.
C40_SelectionIsLiveMember ==
  [][ Select =>
        LET Young(p) == ~IsStale(p, now)
            pruned == SelectSeq(rewardParticipants, Young)
            r == getRewardNextTarget(State, now)
            at == IF rewardRoundRobinCursor >= Len(pruned)
                  THEN 0 ELSE rewardRoundRobinCursor
        IN /\ ~r.found <=> pruned = <<>>
           /\ r.found =>
                /\ r.target = pruned[at + 1]
                /\ r.target \in Range(rewardParticipants)
                /\ r.target \in Range(rewardParticipants')
                /\ picks' # <<>> /\ picks'[Len(picks')] = KeyOf(r.target)
                /\ 0 <= rewardRoundRobinCursor'
                /\ rewardRoundRobinCursor' < Len(rewardParticipants') ]_vars

\* A selection has just found the cursor beyond the end of the list, left
\* there by removals, and has returned a registered participant.
C40_Witness ==
  /\ lastIn.type = "selection, cursor beyond the end"
  /\ picks # <<>>
  /\ \E i \in DOMAIN rewardParticipants :
       KeyOf(rewardParticipants[i]) = picks[Len(picks)]
  /\ rewardRoundRobinCursor < Len(rewardParticipants)

====
